---- MODULE Spec2Model ----
(***************************************************************************)
(* Notebook materialization of Paper2Notebook: generator factory,          *)
(* requirements / notebook builder and notebook validator                  *)
(* (src/backend/api/app/materialize).                                      *)
(*                                                                         *)
(* Python values are modelled as follows.  None is the marker PyNone; a    *)
(* str is a TLA+ string; a list is a sequence; a set is a TLA+ set whose   *)
(* iteration order is chosen nondeterministically where the code iterates  *)
(* it; an object is a record of its fields.  A text that the code builds   *)
(* by joining pieces is the sequence of those pieces.                      *)
(***************************************************************************)
EXTENDS Integers, Sequences, FiniteSets, TLC

VARIABLES
    plan,         \* the PlanDocumentV11 under materialization
    paper,        \* the optional PaperRecord (PaperNone when absent)
    plan_id,      \* the plan identifier handed to build_notebook_bytes
    factory_out,  \* outcome of the last GeneratorFactory.get_dataset_generator call
    nb_bytes,     \* the bytes handed to NotebookValidator.validate
    vresult,      \* outcome of the last NotebookValidator.validate call
    req_out,      \* outcome of the last build_requirements call
    req_prev,     \* outcome of the build_requirements call before that
    nb_out,       \* outcome of the last build_notebook_bytes call
    nb_prev,      \* outcome of the build_notebook_bytes call before that
    run,          \* the kernel executing a generated notebook, and its surroundings
    conc,         \* request threads materializing plans side by side, and the module globals
    tabular,      \* a tabular dataset cell body executing on a table
    corpus,       \* a text-corpus dataset cell body detecting its fields
    registry,     \* a dataset name going through normalization and lookup
    relay,        \* an SSE relay of the gateway translating backend lines
    gateway,      \* a generate_plan request of the gateway
    story         \* a refresh_storyboard_with_results request of the backend

vars == <<plan, paper, plan_id, factory_out, nb_bytes, vresult, req_out, req_prev, nb_out,
          nb_prev, run, conc, tabular, corpus, registry, relay, gateway, story>>

(***************************************************************************)
(* Python values                                                           *)
(***************************************************************************)
PyNone == "<None>"

\* truth value of an Optional[str]: None and "" are falsy
Truthy(s) == s # PyNone /\ s # ""

(***************************************************************************)
(* Plans and papers                                                        *)
(***************************************************************************)
DatasetNames ==
    {"iris", "MNIST", "SST-2", "penalty_shootouts", "totally_unknown_xyz",
     "LargeVision", "Borderline", "LegacySource"}

Seeds == {7, 42}

Plans ==
    [dataset : [name : DatasetNames, split : {PyNone}],
     model   : [name : {"logistic"}],
     config  : [seed : Seeds]]

\* paper=None
PaperNone ==
    [none |-> TRUE, id |-> PyNone, dataset_storage_path |-> PyNone,
     dataset_format |-> PyNone, dataset_original_filename |-> PyNone]

PaperRecord(id, path, fmt, fname) ==
    [none |-> FALSE, id |-> id, dataset_storage_path |-> path,
     dataset_format |-> fmt, dataset_original_filename |-> fname]

Papers ==
    { PaperNone,
      PaperRecord("paper-1", PyNone, PyNone, PyNone),
      PaperRecord("paper-2", "", PyNone, PyNone),
      PaperRecord("paper-3", "datasets/paper-3.xls", "excel", "shootouts.xls") }

(***************************************************************************)
(* Dataset registry (generators/dataset_registry.py).  The table holds the *)
(* entries the generators' docstrings name, one per source, and three      *)
(* further entries that exercise the size advisory (201 MB, 200 MB) and    *)
(* a source outside the four the factory dispatches on.                    *)
(***************************************************************************)
SKLEARN == "sklearn"
TORCHVISION == "torchvision"
HUGGINGFACE == "huggingface"
EXCEL == "excel"

DatasetMetadata(source, load_function, typical_size_mb, license, hf_path) ==
    [source |-> source, load_function |-> load_function,
     typical_size_mb |-> typical_size_mb, license |-> license, hf_path |-> hf_path]

\* lookup_dataset's "not found" (None)
MetaNone == DatasetMetadata(PyNone, PyNone, 0, PyNone, <<>>)

normalize_dataset_name(name) ==
    CASE name = "iris" -> "iris"
      [] name = "MNIST" -> "mnist"
      [] name = "SST-2" -> "sst2"
      [] name = "penalty_shootouts" -> "penaltyshootouts"
      [] name = "totally_unknown_xyz" -> "totallyunknownxyz"
      [] name = "LargeVision" -> "largevision"
      [] name = "Borderline" -> "borderline"
      [] name = "LegacySource" -> "legacysource"
      [] OTHER -> name

DATASET_REGISTRY ==
    [k \in {"iris", "mnist", "sst2", "penaltyshootouts", "largevision",
            "borderline", "legacysource", "agnews"} |->
        CASE k = "iris" -> DatasetMetadata(SKLEARN, "load_iris", 1, "BSD", <<>>)
          [] k = "mnist" -> DatasetMetadata(TORCHVISION, "MNIST", 15, "CC", <<>>)
          [] k = "sst2" -> DatasetMetadata(HUGGINGFACE, "load_dataset", 67, "other", <<"glue", "sst2">>)
          [] k = "penaltyshootouts" -> DatasetMetadata(EXCEL, "read_excel", 1, "other", <<>>)
          [] k = "largevision" -> DatasetMetadata(TORCHVISION, "CIFAR100", 201, "other", <<>>)
          [] k = "borderline" -> DatasetMetadata(HUGGINGFACE, "load_dataset", 200, "other", <<"imdb">>)
          [] k = "legacysource" -> DatasetMetadata("kaggle", "download", 250, "other", <<>>)
          [] k = "agnews" -> DatasetMetadata(HUGGINGFACE, "load_dataset", 30, "other", <<"ag_news">>)]

lookup_dataset(name) ==
    LET key == normalize_dataset_name(name)
    IN  IF key \in DOMAIN DATASET_REGISTRY THEN DATASET_REGISTRY[key] ELSE MetaNone

(***************************************************************************)
(* GeneratorFactory (generators/factory.py)                                *)
(***************************************************************************)
\* a generator object: its class, and the metadata and paper it was built with
Generator(variant, metadata, p) == [variant |-> variant, metadata |-> metadata, paper |-> p]

SyntheticDatasetGenerator == Generator("SyntheticDatasetGenerator", MetaNone, PaperNone)
SklearnDatasetGenerator(metadata) == Generator("SklearnDatasetGenerator", metadata, PaperNone)
TorchvisionDatasetGenerator(metadata) == Generator("TorchvisionDatasetGenerator", metadata, PaperNone)
HuggingFaceDatasetGenerator(metadata) == Generator("HuggingFaceDatasetGenerator", metadata, PaperNone)
ExcelDatasetGenerator(metadata, p) == Generator("ExcelDatasetGenerator", metadata, p)
SklearnLogisticGenerator == Generator("SklearnLogisticGenerator", MetaNone, PaperNone)

LogRecord(level, what) == [level |-> level, what |-> what]

\* the size advisory threshold of the factory, in MB
SizeAdvisoryMb == 200

\* what a get_dataset_generator call gives back: the generator it returns
\* (raised = FALSE), the logger calls it made, and how often it called
\* lookup_dataset
FactoryReturn(gen, log, lookups) ==
    [called |-> TRUE, raised |-> FALSE, gen |-> gen, log |-> log, lookups |-> lookups]

uploaded_metadata == DatasetMetadata(EXCEL, "read_excel", 1, "user-provided", <<>>)

\* `if paper and paper.dataset_storage_path`
HasUpload(p) == ~p.none /\ Truthy(p.dataset_storage_path)

\* the size warning of the factory: logging only
SizeAdvisory(metadata) ==
    IF metadata.typical_size_mb > SizeAdvisoryMb
    THEN <<LogRecord("warning", "size")>>
    ELSE <<>>

\* a dispatch in which the size advisory blocks the selection
SelectBySource_blocking(metadata, p) ==
    IF metadata = MetaNone \/ metadata.typical_size_mb > SizeAdvisoryMb
    THEN FactoryReturn(SyntheticDatasetGenerator, <<LogRecord("info", "not in registry")>>, 1)
    ELSE CASE metadata.source = SKLEARN ->
                FactoryReturn(SklearnDatasetGenerator(metadata), <<LogRecord("info", "sklearn")>>, 1)
           [] metadata.source = TORCHVISION ->
                FactoryReturn(TorchvisionDatasetGenerator(metadata), <<LogRecord("info", "torchvision")>>, 1)
           [] metadata.source = HUGGINGFACE ->
                FactoryReturn(HuggingFaceDatasetGenerator(metadata), <<LogRecord("info", "huggingface")>>, 1)
           [] metadata.source = EXCEL ->
                FactoryReturn(ExcelDatasetGenerator(metadata, p), <<LogRecord("info", "excel")>>, 1)
           [] OTHER ->
                FactoryReturn(SyntheticDatasetGenerator, <<LogRecord("warning", "unknown source")>>, 1)

\* the dispatch on the registry's answer
SelectBySource(metadata, p) ==
    IF metadata = MetaNone
    THEN FactoryReturn(SyntheticDatasetGenerator, <<LogRecord("info", "not in registry")>>, 1)
    ELSE LET advisory == SizeAdvisory(metadata)
         IN  CASE metadata.source = SKLEARN ->
                    FactoryReturn(SklearnDatasetGenerator(metadata),
                                  advisory \o <<LogRecord("info", "sklearn")>>, 1)
               [] metadata.source = TORCHVISION ->
                    FactoryReturn(TorchvisionDatasetGenerator(metadata),
                                  advisory \o <<LogRecord("info", "torchvision")>>, 1)
               [] metadata.source = HUGGINGFACE ->
                    FactoryReturn(HuggingFaceDatasetGenerator(metadata),
                                  advisory \o <<LogRecord("info", "huggingface")>>, 1)
               [] metadata.source = EXCEL ->
                    FactoryReturn(ExcelDatasetGenerator(metadata, p),
                                  advisory \o <<LogRecord("info", "excel")>>, 1)
               [] OTHER ->
                    FactoryReturn(SyntheticDatasetGenerator,
                                  advisory \o <<LogRecord("warning", "unknown source")>>, 1)

\* a factory that asks the registry first and honours the upload only on a miss
get_dataset_generator_registry_first(pl, p) ==
    IF HasUpload(p) /\ lookup_dataset(pl.dataset.name) = MetaNone
    THEN FactoryReturn(ExcelDatasetGenerator(uploaded_metadata, p),
                       <<LogRecord("info", "uploaded")>>, 1)
    ELSE SelectBySource(lookup_dataset(pl.dataset.name), p)

get_dataset_generator(pl, p) ==
    IF HasUpload(p)
    THEN FactoryReturn(ExcelDatasetGenerator(uploaded_metadata, p),
                       <<LogRecord("info", "uploaded")>>, 0)
    ELSE SelectBySource(lookup_dataset(pl.dataset.name), p)

get_model_generator(pl) == SklearnLogisticGenerator

(***************************************************************************)
(* Code generators (generators/dataset.py; generators/model.py)            *)
(***************************************************************************)
\* str(x) of an int, as an f-string formats it
str(n) == ToString(n)

\* the baseline model generator (generators/model.py): a scikit-learn
\* logistic regression
LogisticImports ==
    <<"from sklearn.linear_model import LogisticRegression",
      "from sklearn.metrics import accuracy_score">>

LogisticRequirements == <<"scikit-learn==1.5.1">>

generate_imports(gen, pl) ==
    CASE gen.variant = "SyntheticDatasetGenerator" ->
            <<"from sklearn.datasets import make_classification",
              "from sklearn.model_selection import train_test_split">>
      [] gen.variant = "SklearnDatasetGenerator" ->
            <<"from sklearn.datasets import " \o gen.metadata.load_function,
              "from sklearn.model_selection import train_test_split">>
      [] gen.variant = "TorchvisionDatasetGenerator" ->
            <<"from torchvision import datasets, transforms",
              "import numpy as np",
              "import os">>
      [] gen.variant = "ExcelDatasetGenerator" ->
            <<"import pandas as pd",
              "from sklearn.preprocessing import LabelEncoder",
              "from sklearn.model_selection import train_test_split",
              "import os">>
      [] gen.variant = "HuggingFaceDatasetGenerator" ->
            <<"from datasets import load_dataset",
              "from sklearn.feature_extraction.text import CountVectorizer",
              "from sklearn.model_selection import train_test_split",
              "import os">>
      [] gen.variant = "SklearnLogisticGenerator" -> LogisticImports

generate_requirements(gen, pl) ==
    CASE gen.variant = "SyntheticDatasetGenerator" -> <<"scikit-learn==1.5.1">>
      [] gen.variant = "SklearnDatasetGenerator" -> <<"scikit-learn==1.5.1">>
      [] gen.variant = "TorchvisionDatasetGenerator" -> <<"torch==2.1.0", "torchvision==0.16.0">>
      [] gen.variant = "ExcelDatasetGenerator" ->
            <<"pandas==2.2.2", "xlrd>=2.0.1", "openpyxl>=3.1.0", "scikit-learn==1.5.1">>
      [] gen.variant = "HuggingFaceDatasetGenerator" ->
            <<"datasets>=2.14.0", "scikit-learn==1.5.1">>
      [] gen.variant = "SklearnLogisticGenerator" -> LogisticRequirements

\* the code bodies, statement by statement
StageUpdate(dataset_name) ==
    "log_event(stage_update, dataset_load, " \o dataset_name \o ")"

SampleCap ==
    <<"MAX_SAMPLES = int(os.getenv(MAX_TRAIN_SAMPLES, 5000))",
      "if len(X) > MAX_SAMPLES: indices = np.random.RandomState(SEED).choice(len(X), MAX_SAMPLES, replace=False); X, y = X[indices], y[indices]">>

TrainTestSplit ==
    "X_train, X_test, y_train, y_test = train_test_split(X, y, test_size=0.2, random_state=SEED)"

TabularPreprocessing ==
    <<"target_column = first of [Win, win, target, label, class, y, Target, Label] in df.columns, else df.columns[-1] with log_event(warning)",
      "y = df[target_column].values; X_df = df.drop(columns=[target_column])",
      "drop object columns with nunique() > 50, log_event(info) each",
      "LabelEncoder on remaining object columns",
      "X = X_df.values">>

TabularEpilogue ==
    SampleCap \o
    <<TrainTestSplit,
      "log_event(metric_update, dataset_samples, len(X))",
      "log_event(metric_update, dataset_features, X.shape[1])">>

SyntheticCode(pl) ==
    <<StageUpdate(pl.dataset.name),
      "X, y = make_classification(n_samples=512, n_features=32, n_informative=16, n_redundant=4, random_state=SEED)",
      "X_train, X_test, y_train, y_test = train_test_split(X, y, test_size=0.2, stratify=y, random_state=SEED)",
      "log_event(metric_update, dataset_samples, int(X.shape[0]))">>

SklearnCode(gen, pl) ==
    <<"# Dataset: " \o pl.dataset.name \o " (sklearn built-in - no download)",
      StageUpdate(pl.dataset.name),
      "X, y = " \o gen.metadata.load_function \o "(return_X_y=True)",
      TrainTestSplit,
      "log_event(metric_update, dataset_samples, int(X.shape[0]))">>

TorchvisionCode(gen, pl) ==
    <<"# Dataset: " \o pl.dataset.name \o " (Torchvision - cached download)",
      "CACHE_DIR = os.getenv(DATASET_CACHE_DIR, ./data)",
      "OFFLINE_MODE = os.getenv(OFFLINE_MODE, false).lower() == true",
      StageUpdate(pl.dataset.name),
      "transform = transforms.Compose([transforms.ToTensor()])",
      "train_dataset = datasets." \o gen.metadata.load_function
          \o "(root=CACHE_DIR, train=True, download=not OFFLINE_MODE, transform=transform)",
      "test_dataset = datasets." \o gen.metadata.load_function
          \o "(root=CACHE_DIR, train=False, download=not OFFLINE_MODE, transform=transform)",
      "X_train = train_dataset.data.numpy().reshape(len(train_dataset), -1); y_train = np.array(train_dataset.targets)",
      "X_test = test_dataset.data.numpy().reshape(len(test_dataset), -1); y_test = np.array(test_dataset.targets)",
      "MAX_SAMPLES = int(os.getenv(MAX_TRAIN_SAMPLES, 5000))",
      "if len(X_train) > MAX_SAMPLES: indices = np.random.RandomState(SEED).choice(len(X_train), MAX_SAMPLES, replace=False); X_train, y_train = X_train[indices], y_train[indices]",
      "log_event(metric_update, dataset_samples, len(X_train))">>

\* ExcelDatasetGenerator._generate_uploaded_dataset_code
generate_uploaded_dataset_code(gen, pl) ==
    LET dataset_filename ==
            IF ~gen.paper.none THEN gen.paper.dataset_original_filename ELSE "dataset.xls"
    IN  <<"# Dataset: " \o pl.dataset.name \o " (Uploaded with paper - loaded from local file)",
          StageUpdate(pl.dataset.name),
          "dataset_path = " \o dataset_filename,
          "if not os.path.exists(dataset_path): raise FileNotFoundError",
          "log_event(info, Loading dataset from local file)",
          "df = pd.read_excel(dataset_path)",
          "log_event(metric_update, dataset_rows, len(df))",
          "df_clean = df.dropna(); log_event(info, Dropped rows) if len(df_clean) < len(df); df = df_clean">>
        \o TabularPreprocessing \o TabularEpilogue

ExcelCode(gen, pl) ==
    IF ~gen.paper.none /\ Truthy(gen.paper.dataset_storage_path)
    THEN generate_uploaded_dataset_code(gen, pl)
    ELSE LET file_path == "./" \o pl.dataset.name \o ".xls"
         IN  <<"# Dataset: " \o pl.dataset.name \o " (Excel format - local registry)",
               StageUpdate(pl.dataset.name),
               "df = pd.read_excel(" \o file_path \o ")",
               "log_event(metric_update, dataset_rows, len(df))">>
             \o TabularPreprocessing \o TabularEpilogue

\* ", ".join(f'"{p}"' for p in hf_path)
RECURSIVE JoinQuoted(_)
JoinQuoted(path) ==
    IF path = <<>> THEN ""
    ELSE IF Len(path) = 1 THEN "\"" \o path[1] \o "\""
    ELSE "\"" \o path[1] \o "\", " \o JoinQuoted(Tail(path))

HuggingFaceCode(gen, pl) ==
    LET hf_path_str == JoinQuoted(gen.metadata.hf_path)
        split == IF Truthy(pl.dataset.split) THEN pl.dataset.split ELSE "train"
    IN  <<"# Dataset: " \o pl.dataset.name \o " (HuggingFace - cached download)",
          "CACHE_DIR = os.getenv(DATASET_CACHE_DIR, ./data/cache)",
          "OFFLINE_MODE = os.getenv(OFFLINE_MODE, false).lower() == true",
          StageUpdate(pl.dataset.name),
          "dataset = load_dataset(" \o hf_path_str
              \o ", cache_dir=CACHE_DIR, download_mode=reuse_dataset_if_exists)",
          "split_name = " \o split \o " if " \o split \o " in dataset else train; train_data = dataset[split_name]",
          "text_field = first of [sentence, text, content, review] in train_data.features, else raise ValueError",
          "texts = [row[text_field] for row in train_data]",
          "label_field = label if label in train_data.features else list(train_data.features.keys())[1]",
          "labels = [row[label_field] for row in train_data]",
          "MAX_FEATURES = int(os.getenv(MAX_BOW_FEATURES, 1000))",
          "vectorizer = CountVectorizer(max_features=MAX_FEATURES)",
          "X = vectorizer.fit_transform(texts).toarray(); y = np.array(labels)">>
        \o SampleCap
        \o <<TrainTestSplit,
             "log_event(metric_update, dataset_samples, len(X))">>

\* the baseline model cell (generators/model.py)
LogisticCode(pl) ==
    <<"log_event(stage_update, train)",
      "model = LogisticRegression(max_iter=500, random_state=SEED)",
      "model.fit(X_train, y_train)",
      "accuracy = accuracy_score(y_test, model.predict(X_test))",
      "log_event(metric_update, accuracy)",
      "METRICS_PATH.write_text(json.dumps(metrics))">>

generate_code(gen, pl) ==
    CASE gen.variant = "SyntheticDatasetGenerator" -> SyntheticCode(pl)
      [] gen.variant = "SklearnDatasetGenerator" -> SklearnCode(gen, pl)
      [] gen.variant = "TorchvisionDatasetGenerator" -> TorchvisionCode(gen, pl)
      [] gen.variant = "ExcelDatasetGenerator" -> ExcelCode(gen, pl)
      [] gen.variant = "HuggingFaceDatasetGenerator" -> HuggingFaceCode(gen, pl)
      [] gen.variant = "SklearnLogisticGenerator" -> LogisticCode(pl)

(***************************************************************************)
(* What the generated cells do when a kernel executes them.                *)
(*                                                                         *)
(* A cell body is read as the sequence of its statements.  A statement is  *)
(* a record of the operation it performs, the names it reads, the names it *)
(* binds, the seed expression it passes (PyNone when it passes none), and  *)
(* the operation's own arguments: n (a number), on (the arrays or the      *)
(* split it works on) and opt (an option written in the call).             *)
(***************************************************************************)
Step(op, reads, defines) ==
    [op |-> op, reads |-> reads, defines |-> defines,
     seed |-> PyNone, n |-> 0, on |-> "", opt |-> "", logs |-> <<>>]

\* names of the Python builtins the generated code reads
Builtins == {"int", "len", "list", "print", "FileNotFoundError", "ValueError"}

\* log_event(...) with the names its arguments read
LogEventStep(reads) == Step("log_event", {"log_event"} \cup reads, {})

\* log_event(event_type, {...}): the event type and what the payload is about
LogEvent(event_type, what, reads) ==
    [LogEventStep(reads) EXCEPT !.logs = <<event_type>>, !.opt = what]

\* log_event("stage_update", {"stage": "dataset_load", "dataset": "{dataset_name}"})
DatasetLoadStep(pl) ==
    [LogEvent("stage_update", "dataset_load", {}) EXCEPT !.on = pl.dataset.name]

\* the import statements at the head of the setup cell
SetupImports_without_numpy == Step("import", {}, {"json", "os", "random", "sys", "Path"})

SetupImports == Step("import", {}, {"json", "os", "random", "sys", "Path", "np"})

\* SEED = {plan.config.seed}
SeedStep_literal(pl) == [Step("assign_seed", {}, {"SEED"}) EXCEPT !.opt = "42"]

SeedStep(pl) == [Step("assign_seed", {}, {"SEED"}) EXCEPT !.opt = str(pl.config.seed)]

\* the setup cell without the statements that remove the files of an earlier execution
setup_steps_keeping_files(pl, id) ==
    <<SetupImports,
      Step("try_import_torch", {}, {"TORCH_AVAILABLE"}),
      Step("assign", {"Path"}, {"EVENTS_PATH", "METRICS_PATH"}),
      Step("def", {}, {"log_event"}),
      Step("def", {}, {"seed_everything"}),
      SeedStep(pl),
      Step("seed_everything", {"seed_everything", "SEED", "random", "np", "TORCH_AVAILABLE"}, {}),
      LogEvent("stage_update", "seed_check", {"SEED", "EVENTS_PATH", "json"}),
      Step("print", {"print"}, {}),
      Step("print", {"print", "sys", "SEED", "TORCH_AVAILABLE"}, {})>>

\* the setup cell of build_notebook_bytes
setup_steps(pl, id) ==
    <<SetupImports,
      Step("try_import_torch", {}, {"TORCH_AVAILABLE"}),
      Step("assign", {"Path"}, {"EVENTS_PATH", "METRICS_PATH"}),
      Step("unlink_if_exists", {"EVENTS_PATH"}, {}),
      Step("unlink_if_exists", {"METRICS_PATH"}, {}),
      Step("def", {}, {"log_event"}),
      Step("def", {}, {"seed_everything"}),
      SeedStep(pl),
      Step("seed_everything", {"seed_everything", "SEED", "random", "np", "TORCH_AVAILABLE"}, {}),
      LogEvent("stage_update", "seed_check", {"SEED", "EVENTS_PATH", "json"}),
      Step("print", {"print"}, {}),
      Step("print", {"print", "sys", "SEED", "TORCH_AVAILABLE"}, {})>>

\* the names an import statement binds
ImportedNames(statement) ==
    CASE statement = "from sklearn.datasets import make_classification" -> {"make_classification"}
      [] statement = "from sklearn.datasets import load_iris" -> {"load_iris"}
      [] statement = "from sklearn.model_selection import train_test_split" -> {"train_test_split"}
      [] statement = "from torchvision import datasets, transforms" -> {"datasets", "transforms"}
      [] statement = "import numpy as np" -> {"np"}
      [] statement = "import os" -> {"os"}
      [] statement = "import pandas as pd" -> {"pd"}
      [] statement = "from sklearn.preprocessing import LabelEncoder" -> {"LabelEncoder"}
      [] statement = "from datasets import load_dataset" -> {"load_dataset"}
      [] statement = "from sklearn.feature_extraction.text import CountVectorizer" -> {"CountVectorizer"}
      [] statement = "from sklearn.linear_model import LogisticRegression" -> {"LogisticRegression"}
      [] statement = "from sklearn.metrics import accuracy_score" -> {"accuracy_score"}
      [] OTHER -> {}

\* the imports cell: one import statement per line of all_imports
imports_steps(all_imports) ==
    [k \in 1..Len(all_imports) |-> Step("import", {}, ImportedNames(all_imports[k]))]

\* MAX_SAMPLES = int(os.getenv("MAX_TRAIN_SAMPLES", "5000"))
MaxSamplesStep == [Step("getenv_max_samples", {"int", "os"}, {"MAX_SAMPLES"}) EXCEPT !.opt = "5000"]

\* if len(X) > MAX_SAMPLES: indices = np.random.RandomState(SEED).choice(
\*     len(X), MAX_SAMPLES, replace=False); X, y = X[indices], y[indices]
SubsampleStep_unseeded ==
    [Step("subsample", {"len", "X", "y", "MAX_SAMPLES", "np"}, {"indices", "X", "y"})
        EXCEPT !.seed = PyNone, !.on = "X", !.opt = "replace=False"]

SubsampleStep ==
    [Step("subsample", {"len", "X", "y", "MAX_SAMPLES", "np", "SEED"}, {"indices", "X", "y"})
        EXCEPT !.seed = "SEED", !.on = "X", !.opt = "replace=False"]

\* the same statements on X_train and y_train (TorchvisionDatasetGenerator)
SubsampleTrainStep ==
    [Step("subsample", {"len", "X_train", "y_train", "MAX_SAMPLES", "np", "SEED"},
          {"indices", "X_train", "y_train"})
        EXCEPT !.seed = "SEED", !.on = "X_train", !.opt = "replace=False"]

SampleCapSteps == <<MaxSamplesStep, SubsampleStep>>

\* X_train, X_test, y_train, y_test = train_test_split(X, y, test_size=0.2, random_state=SEED)
TrainTestSplitStep ==
    [Step("train_test_split", {"train_test_split", "X", "y", "SEED"},
          {"X_train", "X_test", "y_train", "y_test"})
        EXCEPT !.seed = "SEED", !.n = 20, !.on = "X"]

TabularPreprocessingSteps ==
    <<[Step("detect_target_column", {"df", "log_event"}, {"col", "target_column"})
          EXCEPT !.logs = <<"warning">>],
      Step("separate_target", {"df", "target_column"}, {"y", "X_df"}),
      [Step("drop_high_cardinality", {"X_df", "log_event"}, {"col", "X_df"})
          EXCEPT !.logs = <<"info">>],
      Step("encode_categorical", {"X_df", "LabelEncoder"}, {"label_encoders", "col", "le", "X_df"}),
      Step("values", {"X_df"}, {"X"})>>

TabularEpilogueSteps ==
    <<MaxSamplesStep,
      [SubsampleStep EXCEPT !.reads = @ \cup {"log_event"}, !.logs = <<"info">>],
      TrainTestSplitStep,
      LogEvent("metric_update", "dataset_samples", {"len", "X"}),
      LogEvent("metric_update", "dataset_features", {"X"})>>

SyntheticSteps(pl) ==
    <<DatasetLoadStep(pl),
      [Step("make_classification", {"make_classification", "SEED"}, {"X", "y"})
          EXCEPT !.seed = "SEED", !.n = 512],
      [TrainTestSplitStep EXCEPT !.opt = "stratify=y"],
      LogEvent("metric_update", "dataset_samples", {"int", "X"})>>

SklearnSteps(gen, pl) ==
    <<DatasetLoadStep(pl),
      Step("load_bundled", {gen.metadata.load_function}, {"X", "y"}),
      TrainTestSplitStep,
      LogEvent("metric_update", "dataset_samples", {"int", "X"})>>

TorchvisionSteps(gen, pl) ==
    <<Step("getenv_cache_dir", {"os"}, {"CACHE_DIR"}),
      Step("getenv_offline_mode", {"os"}, {"OFFLINE_MODE"}),
      DatasetLoadStep(pl),
      Step("assign", {"transforms"}, {"transform"}),
      [Step("torchvision_dataset", {"datasets", "CACHE_DIR", "OFFLINE_MODE", "transform"},
            {"train_dataset"})
          EXCEPT !.on = "train", !.opt = "download=not OFFLINE_MODE"],
      [Step("torchvision_dataset", {"datasets", "CACHE_DIR", "OFFLINE_MODE", "transform"},
            {"test_dataset"})
          EXCEPT !.on = "test", !.opt = "download=not OFFLINE_MODE"],
      [Step("to_numpy", {"train_dataset", "len", "np"}, {"X_train", "y_train"}) EXCEPT !.on = "train"],
      [Step("to_numpy", {"test_dataset", "len", "np"}, {"X_test", "y_test"}) EXCEPT !.on = "test"],
      MaxSamplesStep,
      SubsampleTrainStep,
      LogEvent("metric_update", "dataset_samples", {"len", "X_train"})>>

\* ExcelDatasetGenerator._generate_uploaded_dataset_code
uploaded_dataset_steps(gen, pl) ==
    <<DatasetLoadStep(pl),
      Step("assign", {}, {"dataset_path"}),
      Step("raise_unless_exists", {"os", "dataset_path", "FileNotFoundError"}, {}),
      LogEvent("info", "loading", {"dataset_path"}),
      [Step("read_excel", {"pd", "dataset_path"}, {"df"}) EXCEPT !.on = "uploaded"],
      LogEvent("metric_update", "dataset_rows", {"len", "df"}),
      [Step("dropna", {"df", "len", "log_event"}, {"df_clean", "dropped", "df"})
          EXCEPT !.logs = <<"info">>]>>
    \o TabularPreprocessingSteps \o TabularEpilogueSteps

ExcelSteps(gen, pl) ==
    IF ~gen.paper.none /\ Truthy(gen.paper.dataset_storage_path)
    THEN uploaded_dataset_steps(gen, pl)
    ELSE <<DatasetLoadStep(pl),
           [Step("read_excel", {"pd"}, {"df"}) EXCEPT !.on = "local"],
           LogEvent("metric_update", "dataset_rows", {"len", "df"})>>
         \o TabularPreprocessingSteps \o TabularEpilogueSteps

HuggingFaceSteps(gen, pl) ==
    <<Step("getenv_cache_dir", {"os"}, {"CACHE_DIR"}),
      Step("getenv_offline_mode", {"os"}, {"OFFLINE_MODE"}),
      DatasetLoadStep(pl),
      [Step("load_dataset", {"load_dataset", "CACHE_DIR"}, {"dataset"})
          EXCEPT !.opt = "download_mode=reuse_dataset_if_exists"],
      Step("assign", {"dataset"}, {"split_name", "train_data"}),
      Step("detect_text_field", {"train_data", "ValueError", "list"}, {"field", "text_field"}),
      Step("assign", {"train_data", "text_field"}, {"texts"}),
      Step("assign", {"train_data", "list"}, {"label_field"}),
      Step("assign", {"train_data", "label_field"}, {"labels"}),
      Step("getenv_max_features", {"int", "os"}, {"MAX_FEATURES"}),
      Step("assign", {"CountVectorizer", "MAX_FEATURES"}, {"vectorizer"}),
      Step("vectorize", {"vectorizer", "texts", "np", "labels"}, {"X", "y"})>>
    \o SampleCapSteps
    \o <<TrainTestSplitStep,
         LogEvent("metric_update", "dataset_samples", {"len", "X"})>>

\* the baseline model cell (generators/model.py)
LogisticSteps(pl) ==
    <<LogEvent("stage_update", "train", {}),
      [Step("assign", {"LogisticRegression", "SEED"}, {"model"}) EXCEPT !.seed = "SEED"],
      Step("fit", {"model", "X_train", "y_train"}, {}),
      Step("assign", {"accuracy_score", "y_test", "model", "X_test"}, {"accuracy"}),
      LogEvent("metric_update", "accuracy", {"accuracy"}),
      Step("write_metrics", {"METRICS_PATH", "json", "accuracy"}, {})>>

\* the statements of generate_code(gen, plan)
generate_steps(gen, pl) ==
    CASE gen.variant = "SyntheticDatasetGenerator" -> SyntheticSteps(pl)
      [] gen.variant = "SklearnDatasetGenerator" -> SklearnSteps(gen, pl)
      [] gen.variant = "TorchvisionDatasetGenerator" -> TorchvisionSteps(gen, pl)
      [] gen.variant = "ExcelDatasetGenerator" -> ExcelSteps(gen, pl)
      [] gen.variant = "HuggingFaceDatasetGenerator" -> HuggingFaceSteps(gen, pl)
      [] gen.variant = "SklearnLogisticGenerator" -> LogisticSteps(pl)

(***************************************************************************)
(* Notebook validator (validation.py).                                     *)
(*                                                                         *)
(* A cell's source text is the sequence of its lexical pieces: a rule      *)
(* table class name, "(", ")", the text "random_state=" (the parameter     *)
(* name, optional blanks and the equals sign), the null character, and     *)
(* "x" for any other text, which holds none of the former.  Blanks between *)
(* pieces are not represented.                                             *)
(***************************************************************************)
NUL == "\\0"

SKLEARN_PARAM_RULES ==
    [class_name \in {"CountVectorizer", "TfidfVectorizer", "HashingVectorizer"} |->
        [forbidden_params |-> {"random_state"},
         reason |-> class_name \o " is deterministic and does not accept random_state"]]

\* a cell of the node nbformat.reads gives back: cell_type is PyNone and
\* has_source is FALSE when the JSON cell lacks the key
Cell(cell_type, has_source, source) ==
    [cell_type |-> cell_type, has_source |-> has_source, source |-> source]

CodeCell(source) == Cell("code", TRUE, source)
MarkdownCell(source) == Cell("markdown", TRUE, source)

\* notebook_bytes: bytes that are not UTF-8, text that is not JSON, JSON that
\* is no notebook document the reader can walk (no nbformat version, no cell
\* list), or a JSON document with a cell list
ByteKinds == {"undecodable", "not_json", "not_a_notebook", "notebook"}

NotebookBytes(kind, cells) == [kind |-> kind, cells |-> cells]

\* nbformat.reads(notebook_bytes.decode('utf-8'), as_version=4): raises on
\* bytes it cannot decode, parse or walk; a document that breaks the notebook
\* schema (a cell without cell_type or source) is reported to nbformat's logger
\* and returned as it is
\* a reader that takes no bytes for a notebook
nbformat_reads_rejecting(bytes) == [raised |-> TRUE, cells |-> <<>>]

nbformat_reads(bytes) ==
    IF bytes.kind = "notebook"
    THEN [raised |-> FALSE, cells |-> bytes.cells]
    ELSE [raised |-> TRUE, cells |-> <<>>]

\* number of "(" minus number of ")" in source[1..n]
RECURSIVE ParenDepth(_, _)
ParenDepth(source, n) ==
    IF n = 0 THEN 0
    ELSE ParenDepth(source, n - 1)
         + (IF source[n] = "(" THEN 1 ELSE IF source[n] = ")" THEN -1 ELSE 0)

Balanced(source) ==
    /\ ParenDepth(source, Len(source)) = 0
    /\ \A n \in 1..Len(source) : ParenDepth(source, n) >= 0

\* compile(cell.source, f'<cell-{i}>', 'exec'): ValueError on a null character,
\* SyntaxError on unbalanced parentheses, else a code object
compile(source) ==
    IF \E n \in 1..Len(source) : source[n] = NUL THEN "ValueError"
    ELSE IF ~Balanced(source) THEN "SyntaxError"
    ELSE "ok"

\* the error strings, by their parts
SyntaxErrorMsg(i) == [check |-> "syntax", cell |-> i, class_name |-> PyNone, param |-> PyNone]
CompilationErrorMsg(i) == [check |-> "compilation", cell |-> i, class_name |-> PyNone, param |-> PyNone]
ParamErrorMsg(i, class_name, param) ==
    [check |-> "sklearn_param", cell |-> i, class_name |-> class_name, param |-> param]
ParseErrorMsg == [check |-> "parse", cell |-> -1, class_name |-> PyNone, param |-> PyNone]

\* the outcome of a check: the list it returns, or the exception it lets through
CheckReturn(errors) == [raised |-> FALSE, errors |-> errors]
CheckRaise == [raised |-> TRUE, errors |-> <<>>]

\* the body of the try statement of _check_syntax for cell i (0-based)
CompileCell(cell, i) ==
    IF ~cell.has_source THEN <<CompilationErrorMsg(i)>>
    ELSE CASE compile(cell.source) = "SyntaxError" -> <<SyntaxErrorMsg(i)>>
           [] compile(cell.source) = "ValueError" -> <<CompilationErrorMsg(i)>>
           [] OTHER -> <<>>

\* _check_syntax from cell n (1-based position) on
RECURSIVE CheckSyntaxFrom(_, _)
CheckSyntaxFrom(cells, n) ==
    IF n > Len(cells) THEN CheckReturn(<<>>)
    ELSE IF cells[n].cell_type = PyNone THEN CheckRaise
    ELSE LET here == IF cells[n].cell_type = "code" THEN CompileCell(cells[n], n - 1) ELSE <<>>
             rest == CheckSyntaxFrom(cells, n + 1)
         IN  IF rest.raised THEN CheckRaise ELSE CheckReturn(here \o rest.errors)

\* a syntax check that stops at the first cell that fails to compile
RECURSIVE CheckSyntaxFailFast(_, _)
CheckSyntaxFailFast(cells, n) ==
    IF n > Len(cells) THEN CheckReturn(<<>>)
    ELSE IF cells[n].cell_type = PyNone THEN CheckRaise
    ELSE LET here == IF cells[n].cell_type = "code" THEN CompileCell(cells[n], n - 1) ELSE <<>>
         IN  IF here # <<>> THEN CheckReturn(here)
             ELSE CheckSyntaxFailFast(cells, n + 1)

check_syntax_fail_fast(cells) == CheckSyntaxFailFast(cells, 1)

check_syntax(cells) == CheckSyntaxFrom(cells, 1)

\* re.search(rf'{class_name}\s*\([^)]*{param}\s*=', source)
ParamPattern(source, class_name, param) ==
    \E a \in 1..Len(source) :
        /\ source[a] = class_name
        /\ a + 1 <= Len(source)
        /\ source[a + 1] = "("
        /\ \E b \in (a + 2)..Len(source) :
              /\ source[b] = param \o "="
              /\ \A k \in (a + 2)..(b - 1) : source[k] # ")"

\* the rule table in the order the dict is written
RuleOrder == <<"CountVectorizer", "TfidfVectorizer", "HashingVectorizer">>

\* the loop over SKLEARN_PARAM_RULES.items() for one cell, from rule r on
RECURSIVE RulesFrom(_, _, _)
RulesFrom(cell, i, r) ==
    IF r > Len(RuleOrder) THEN <<>>
    ELSE LET class_name == RuleOrder[r]
             hit == /\ \E n \in 1..Len(cell.source) : cell.source[n] = class_name
                    /\ \E param \in SKLEARN_PARAM_RULES[class_name].forbidden_params :
                          ParamPattern(cell.source, class_name, param)
             bad == CHOOSE param \in SKLEARN_PARAM_RULES[class_name].forbidden_params :
                          ParamPattern(cell.source, class_name, param)
         IN  (IF hit THEN <<ParamErrorMsg(i, class_name, bad)>> ELSE <<>>)
             \o RulesFrom(cell, i, r + 1)

\* _check_sklearn_params from cell n (1-based position) on
RECURSIVE CheckParamsFrom(_, _)
CheckParamsFrom(cells, n) ==
    IF n > Len(cells) THEN CheckReturn(<<>>)
    ELSE IF cells[n].cell_type = PyNone THEN CheckRaise
    ELSE IF cells[n].cell_type # "code"
         THEN CheckParamsFrom(cells, n + 1)
    ELSE IF ~cells[n].has_source THEN CheckRaise
    ELSE LET rest == CheckParamsFrom(cells, n + 1)
         IN  IF rest.raised THEN CheckRaise
             ELSE CheckReturn(RulesFrom(cells[n], n - 1, 1) \o rest.errors)

\* number of places in source where the pattern begins
Occurrences(source, class_name, param) ==
    Cardinality({a \in 1..Len(source) :
        /\ source[a] = class_name
        /\ a + 1 <= Len(source)
        /\ source[a + 1] = "("
        /\ \E b \in (a + 2)..Len(source) :
              /\ source[b] = param \o "="
              /\ \A k \in (a + 2)..(b - 1) : source[k] # ")"})

RECURSIVE Repeat(_, _)
Repeat(e, n) == IF n = 0 THEN <<>> ELSE <<e>> \o Repeat(e, n - 1)

RECURSIVE RulesPerOccurrence(_, _, _)
RulesPerOccurrence(cell, i, r) ==
    IF r > Len(RuleOrder) THEN <<>>
    ELSE Repeat(ParamErrorMsg(i, RuleOrder[r], "random_state"),
                Occurrences(cell.source, RuleOrder[r], "random_state"))
         \o RulesPerOccurrence(cell, i, r + 1)

RECURSIVE CheckParamsPerOccurrence(_, _)
CheckParamsPerOccurrence(cells, n) ==
    IF n > Len(cells) THEN CheckReturn(<<>>)
    ELSE IF cells[n].cell_type = PyNone THEN CheckRaise
    ELSE IF cells[n].cell_type # "code"
         THEN CheckParamsPerOccurrence(cells, n + 1)
    ELSE IF ~cells[n].has_source THEN CheckRaise
    ELSE LET rest == CheckParamsPerOccurrence(cells, n + 1)
         IN  IF rest.raised THEN CheckRaise
             ELSE CheckReturn(RulesPerOccurrence(cells[n], n - 1, 1) \o rest.errors)

\* a parameter check that reports every occurrence of a forbidden call
check_sklearn_params_per_occurrence(cells) == CheckParamsPerOccurrence(cells, 1)

check_sklearn_params(cells) == CheckParamsFrom(cells, 1)

ValidationResult(valid, errors) ==
    [called |-> TRUE, raised |-> FALSE, valid |-> valid, errors |-> errors]

\* an exception leaves validate
ValidationRaise == [called |-> TRUE, raised |-> TRUE, valid |-> FALSE, errors |-> <<>>]

validate(notebook_bytes) ==
    LET nb == nbformat_reads(notebook_bytes)
    IN  IF nb.raised THEN ValidationResult(FALSE, <<ParseErrorMsg>>)
        ELSE LET syntax == check_syntax(nb.cells)
                 params == check_sklearn_params(nb.cells)
             IN  IF syntax.raised \/ params.raised THEN ValidationRaise
                 ELSE LET errors == syntax.errors \o params.errors
                      IN  ValidationResult(Len(errors) = 0, errors)

(***************************************************************************)
(* Notebook builder (notebook.py)                                          *)
(***************************************************************************)
DEFAULT_REQUIREMENTS ==
    <<"numpy==1.26.4", "scikit-learn==1.5.1", "pandas==2.2.2",
      "matplotlib==3.9.0", "jupyter==1.1.1">>

\* Python's order of str (by code point) on the strings the builder sorts
StrOrder ==
    <<"datasets>=2.14.0",
      "from datasets import load_dataset",
      "from sklearn.datasets import load_iris",
      "from sklearn.datasets import make_classification",
      "from sklearn.feature_extraction.text import CountVectorizer",
      "from sklearn.linear_model import LogisticRegression",
      "from sklearn.metrics import accuracy_score",
      "from sklearn.model_selection import train_test_split",
      "from sklearn.preprocessing import LabelEncoder",
      "from torchvision import datasets, transforms",
      "import numpy as np",
      "import os",
      "import pandas as pd",
      "jupyter==1.1.1",
      "matplotlib==3.9.0",
      "numpy==1.26.4",
      "openpyxl>=3.1.0",
      "pandas==2.2.2",
      "scikit-learn==1.5.1",
      "torch==2.1.0",
      "torchvision==0.16.0",
      "xlrd>=2.0.1">>

StrRank(a) == CHOOSE n \in 1..Len(StrOrder) : StrOrder[n] = a

StrLess(a, b) == StrRank(a) < StrRank(b)

\* set(list)
set(list) == {list[n] : n \in 1..Len(list)}

\* a sort that leaves the set in descending order
RECURSIVE sorted_descending(_)
sorted_descending(S) ==
    IF S = {} THEN <<>>
    ELSE LET greatest == CHOOSE a \in S : \A b \in S \ {a} : StrLess(b, a)
         IN  <<greatest>> \o sorted_descending(S \ {greatest})

\* sorted(S) of a set of str: its elements in ascending order, whatever the
\* order in which the set hands them out
RECURSIVE sorted(_)
sorted(S) ==
    IF S = {} THEN <<>>
    ELSE LET least == CHOOSE a \in S : \A b \in S \ {a} : StrLess(a, b)
         IN  <<least>> \o sorted(S \ {least})

\* sep.join(lines), as the sequence of its pieces
RECURSIVE join(_, _)
join(sep, lines) ==
    IF lines = <<>> THEN <<>>
    ELSE IF Len(lines) = 1 THEN <<lines[1]>>
    ELSE <<lines[1], sep>> \o join(sep, Tail(lines))

\* sha256(text.encode("utf-8")).hexdigest(): equal texts, and no others, have
\* equal digests
sha256_hexdigest(text) == [sha256 |-> text]

\* a builder that joins the lists as they come, neither deduplicated nor sorted
build_requirements_in_list_order(base, dataset_reqs, model_reqs) ==
    LET lines == base \o dataset_reqs \o model_reqs
    IN  [requirements_text |-> join("\n", lines) \o <<"\n">>,
         env_hash |-> sha256_hexdigest(join("\n", lines))]

\* the body of build_requirements on the three requirement lists
build_requirements_from(base, dataset_reqs, model_reqs) ==
    LET requirements == set(base) \cup set(dataset_reqs) \cup set(model_reqs)
        sorted_lines == sorted(requirements)
    IN  [requirements_text |-> join("\n", sorted_lines) \o <<"\n">>,
         env_hash |-> sha256_hexdigest(join("\n", sorted_lines))]

\* the generator build_requirements asks the factory for: the call passes no paper
requirements_dataset_gen(pl) == get_dataset_generator(pl, PaperNone).gen

build_requirements(pl) ==
    LET dataset_gen == requirements_dataset_gen(pl)
        model_gen == get_model_generator(pl)
    IN  build_requirements_from(DEFAULT_REQUIREMENTS,
                                generate_requirements(dataset_gen, pl),
                                generate_requirements(model_gen, pl))

intro_text(id) ==
    <<"# Plan ", id, "\n\n",
      "This notebook was generated automatically from Plan JSON v1.1."
      \o " It follows the declared dataset, model, and configuration using a"
      \o " deterministic CPU-only workflow.">>

setup_code(pl, id) ==
    <<"import json, os, random, sys; from pathlib import Path; import numpy as np",
      "try: import torch; TORCH_AVAILABLE = True; except ImportError: TORCH_AVAILABLE = False",
      "EVENTS_PATH = Path(events.jsonl); METRICS_PATH = Path(metrics.json)",
      "if EVENTS_PATH.exists(): EVENTS_PATH.unlink()",
      "if METRICS_PATH.exists(): METRICS_PATH.unlink()",
      "def log_event(event_type, payload): append one JSON line to EVENTS_PATH",
      "def seed_everything(seed): random.seed; np.random.seed; torch.manual_seed; raise E_GPU_REQUESTED if torch.cuda.is_available()",
      "SEED = " \o str(pl.config.seed),
      "seed_everything(SEED)",
      "log_event(stage_update, seed_check, SEED)",
      "print(Notebook generated for Plan " \o id \o ")",
      "print(Python version, Seed, Torch version)">>

\* nbformat.v4 cells carry an "id" (notebook format 4.5), which new_code_cell
\* and new_markdown_cell draw with random_cell_id(): uuid.uuid4().hex[:8]
random_cell_id ==
    {"1f3a9c02", "b7e0d455", "0c9e4e1a", "5d2f8b70", "e4a61c93",
     "9a0b37de", "63c1f248", "d81e05b6", "2b74a9f1", "f05c6d3e"}

new_markdown_cell(source, cell_id) == [id |-> cell_id] @@ MarkdownCell(source)
new_code_cell(source, cell_id) == [id |-> cell_id] @@ CodeCell(source)

\* a builder that leaves out the cell of the merged imports
notebook_cells_without_imports(pl, id, p, cell_ids) ==
    LET dataset_gen == get_dataset_generator(pl, p).gen
        model_gen == get_model_generator(pl)
    IN  <<new_markdown_cell(intro_text(id), cell_ids[1]),
          new_code_cell(setup_code(pl, id), cell_ids[2]),
          new_code_cell(generate_code(dataset_gen, pl), cell_ids[3]),
          new_code_cell(generate_code(model_gen, pl), cell_ids[4]),
          new_code_cell(<<"# No additional imports needed">>, cell_ids[5])>>

\* the cells build_notebook_bytes assembles
notebook_cells(pl, id, p, cell_ids) ==
    LET dataset_gen == get_dataset_generator(pl, p).gen
        model_gen == get_model_generator(pl)
        dataset_imports == generate_imports(dataset_gen, pl)
        model_imports == generate_imports(model_gen, pl)
        all_imports == sorted(set(dataset_imports \o model_imports))
        dataset_code == generate_code(dataset_gen, pl)
        model_code == generate_code(model_gen, pl)
        imports_code == IF all_imports # <<>> THEN join("\n", all_imports)
                        ELSE <<"# No additional imports needed">>
    IN  <<new_markdown_cell(intro_text(id), cell_ids[1]),
          new_code_cell(setup_code(pl, id), cell_ids[2]),
          new_code_cell(imports_code, cell_ids[3]),
          new_code_cell(dataset_code, cell_ids[4]),
          new_code_cell(model_code, cell_ids[5])>>

notebook_metadata ==
    [kernelspec |-> [name |-> "python3", display_name |-> "Python 3"],
     language_info |-> [name |-> "python"]]

\* nbformat.writes(notebook).encode("utf-8"): the document as validate reads it back
build_notebook_bytes(pl, id, p, cell_ids) ==
    [bytes |-> NotebookBytes("notebook", notebook_cells(pl, id, p, cell_ids)),
     metadata |-> notebook_metadata]

(***************************************************************************)
(* The text of a built notebook as the validator reads it                  *)
(***************************************************************************)
\* a call with the keyword argument random_state=SEED
SeededCallLexemes == <<"x", "(", "x", "random_state=", "x", ")">>

\* the lexical pieces of a piece of generated text: the pieces that hold a
\* rule table class name or the text random_state= are listed; every other
\* piece is text without them whose parentheses are balanced
Lexemes(piece) ==
    CASE piece = "from sklearn.feature_extraction.text import CountVectorizer" ->
            <<"x", "CountVectorizer">>
      [] piece = "vectorizer = CountVectorizer(max_features=MAX_FEATURES)" ->
            <<"x", "CountVectorizer", "(", "x", ")">>
      [] piece = "X, y = make_classification(n_samples=512, n_features=32, n_informative=16, n_redundant=4, random_state=SEED)" ->
            SeededCallLexemes
      [] piece = "X_train, X_test, y_train, y_test = train_test_split(X, y, test_size=0.2, stratify=y, random_state=SEED)" ->
            SeededCallLexemes
      [] piece = "X_train, X_test, y_train, y_test = train_test_split(X, y, test_size=0.2, random_state=SEED)" ->
            SeededCallLexemes
      [] piece = "model = LogisticRegression(max_iter=500, random_state=SEED)" ->
            SeededCallLexemes
      [] OTHER -> <<"x", "(", "x", ")">>

RECURSIVE lex(_)
lex(source) == IF source = <<>> THEN <<>> ELSE Lexemes(Head(source)) \o lex(Tail(source))

\* nbformat.writes(notebook).encode("utf-8") as the bytes validate receives
serialized(bytes) ==
    NotebookBytes(bytes.kind,
                  [k \in 1..Len(bytes.cells) |->
                      [bytes.cells[k] EXCEPT !.source = lex(bytes.cells[k].source)]])

(***************************************************************************)
(* The statements of the tabular cell, on tables.                          *)
(*                                                                         *)
(* A DataFrame is its columns in order, each with a name, a dtype and the  *)
(* number of its distinct values, the numbers of its rows in order, and    *)
(* the set of the rows that hold a missing value.  The number of distinct  *)
(* values is recorded with the column and not counted from the rows, so    *)
(* that a row stands for any number of rows of its kind.                   *)
(***************************************************************************)
DataFrame(columns, rows, missing) == [columns |-> columns, rows |-> rows, missing |-> missing]

\* a column of a sheet as read_excel returns it; kind is its dtype and the
\* number of its distinct values
Column(name, kind) == [name |-> name, dtype |-> kind[1], nunique |-> kind[2], encoded |-> FALSE]

\* df.columns as a list of names
ColumnNames(df) == [k \in 1..Len(df.columns) |-> df.columns[k].name]

\* log_event(event_type, payload): the line it appends
Event(event_type, payload) == [event |-> event_type, payload |-> payload]

\* df.dropna()
dropna(df) ==
    DataFrame(df.columns, SelectSeq(df.rows, LAMBDA row : row \notin df.missing), {})

\* the statements "Clean data" of the uploaded sub-path: the frame and the events
clean_data(df) ==
    LET df_clean == dropna(df)
        dropped == Len(df.rows) - Len(df_clean.rows)
    IN  [df |-> df_clean,
         events |-> IF Len(df_clean.rows) < Len(df.rows)
                    THEN <<Event("info", <<"Dropped rows with missing values", dropped,
                                          (dropped * 1000) \div Len(df.rows)>>)>>
                    ELSE <<>>]

\* the local sub-path has no such statements
clean_data_absent(df) == [df |-> df, events |-> <<>>]

\* the list the for loop of the target detection walks
TargetCandidates == <<"Win", "win", "target", "label", "class", "y", "Target", "Label">>

\* for col in [...]: if col in df.columns: target_column = col; break
RECURSIVE first_present(_, _)
first_present(candidates, names) ==
    IF candidates = <<>> THEN PyNone
    ELSE IF \E k \in 1..Len(names) : names[k] = Head(candidates) THEN Head(candidates)
    ELSE first_present(Tail(candidates), names)

\* "Detect target column" and its fallback: target_column, the events, and
\* the error df.columns[-1] raises on a frame without columns
detect_target_column(df) ==
    LET names == ColumnNames(df)
        found == first_present(TargetCandidates, names)
    IN  IF found # PyNone
        THEN [target_column |-> found, events |-> <<>>, error |-> ""]
        ELSE IF names = <<>>
        THEN [target_column |-> PyNone, events |-> <<>>, error |-> "IndexError"]
        ELSE [target_column |-> names[Len(names)],
              events |-> <<Event("warning", <<"No standard target column found. Using last column: ",
                                              names[Len(names)]>>)>>,
              error |-> ""]

\* df.drop(columns=[name]): every column of that name goes
drop(columns, name) == SelectSeq(columns, LAMBDA c : c.name # name)

\* if X_df[col].nunique() > 50
CardinalityThreshold == 50

\* "Drop high-cardinality string columns": the for loop over X_df.columns, from column k on
RECURSIVE drop_high_cardinality_from(_, _, _)
drop_high_cardinality_from(all, k, out) ==
    IF k > Len(all) THEN out
    ELSE LET col == all[k]
         IN  IF col.dtype = "object" /\ col.nunique > CardinalityThreshold
             THEN drop_high_cardinality_from(all, k + 1,
                      [columns |-> drop(out.columns, col.name),
                       events |-> Append(out.events,
                                     Event("info", <<"Dropped high-cardinality column: ", col.name>>))])
             ELSE drop_high_cardinality_from(all, k + 1, out)

drop_high_cardinality(columns) ==
    drop_high_cardinality_from(columns, 1, [columns |-> columns, events |-> <<>>])

\* "Encode categorical features": LabelEncoder().fit_transform on every object column
encode_categorical(columns) ==
    [k \in 1..Len(columns) |->
        IF columns[k].dtype = "object"
        THEN [columns[k] EXCEPT !.dtype = "int64", !.encoded = TRUE]
        ELSE columns[k]]

\* the statements of the tabular cell from the loaded frame to X and y
tabular_preprocessing(clean, df) ==
    LET cleaned == IF clean THEN clean_data(df) ELSE clean_data_absent(df)
        detected == detect_target_column(cleaned.df)
        X_df == drop(cleaned.df.columns, detected.target_column)
        kept == drop_high_cardinality(X_df)
    IN  IF detected.error # ""
        THEN [error |-> detected.error, events |-> cleaned.events,
              target_column |-> PyNone, y |-> <<>>, X |-> DataFrame(<<>>, <<>>, {})]
        ELSE [error |-> "", events |-> cleaned.events \o detected.events \o kept.events,
              target_column |-> detected.target_column,
              y |-> cleaned.df.rows,
              X |-> DataFrame(encode_categorical(kept.columns), cleaned.df.rows,
                              cleaned.df.missing)]

(***************************************************************************)
(* A kernel executing the generated notebook.                              *)
(*                                                                         *)
(* Samples are numbered; a feature array is the sequence of the numbers of *)
(* its rows and a label array the sequence of the numbers of the samples   *)
(* whose labels it holds, so that X = y says every row has its own label.  *)
(* numpy's RandomState(seed) is modelled by one fixed permutation per seed *)
(* and length.  The surroundings (environment variables, the uploaded      *)
(* file) are fixed when the notebook is handed over; what a load finds     *)
(* (cache, network, number of samples) is decided when the load runs.      *)
(***************************************************************************)
\* the steps of the four code cells, by cell position (cell 1 is markdown)
notebook_steps(pl, id, p) ==
    LET dataset_gen == get_dataset_generator(pl, p).gen
        model_gen == get_model_generator(pl)
        all_imports == sorted(set(generate_imports(dataset_gen, pl)
                                  \o generate_imports(model_gen, pl)))
    IN  <<<<>>,
          setup_steps(pl, id),
          imports_steps(all_imports),
          generate_steps(dataset_gen, pl),
          generate_steps(model_gen, pl)>>

\* largest number of samples a load returns
MaxLoaded == 4

\* values of the environment variables OFFLINE_MODE and MAX_TRAIN_SAMPLES
OfflineModeValues == {PyNone, "true", "True"}
MaxTrainSamplesValues == {PyNone, "2", "3"}

\* the surroundings of a notebook built for paper p; file_on_disk says whether
\* the file the paper record claims is there
\* a sheet with a standard target column and one string feature
StandardSheet == <<Column("Win", <<"int64", 2>>), Column("team", <<"object", 50>>)>>

\* stale says whether events.jsonl and metrics.json of an earlier execution
\* lie in the working directory, torch whether torch can be imported and
\* whether it sees a CUDA device, sheet what columns the Excel file has
Environments(p) ==
    [OFFLINE_MODE : OfflineModeValues,
     MAX_TRAIN_SAMPLES : MaxTrainSamplesValues,
     file_on_disk : IF HasUpload(p) THEN BOOLEAN ELSE {TRUE},
     stale : {FALSE},
     torch : {"absent"},
     sheet : {StandardSheet}]

\* str.lower()
lower(s) == IF s = "True" THEN "true" ELSE s

\* int(s) of a decimal string
int(s) == IF s = "5000" THEN 5000 ELSE CHOOSE n \in 0..50 : str(n) = s

\* os.getenv(name, default)
getenv(value, default) == IF value = PyNone THEN default ELSE value

Samples(n) == [k \in 1..n |-> k]

\* the held-out split of a vision dataset holds samples of its own
TestSamples(n) == [k \in 1..n |-> 1000 + k]

\* np.random.RandomState(seed).permutation(n)
Permutation(seed, n) == [k \in 1..n |-> ((k + seed) % n) + 1]

\* np.random.RandomState(seed).choice(n, size, replace=False)
choice(seed, n, size) == SubSeq(Permutation(seed, n), 1, size)

\* arr[indices]
Take(arr, indices) == [k \in 1..Len(indices) |-> arr[indices[k]]]

\* the seeds a generator may start from: the value of the name passed, or,
\* when none is passed, whatever the operating system's entropy gives
SeedValues(r, step) == IF step.seed = "SEED" THEN {r.SEED} ELSE Seeds \cup {0}

SplitIdle == [called |-> FALSE, test_percent |-> 0, seed |-> -1, of |-> <<>>]

\* a line of events.jsonl, with the cell that wrote it
Line(cell, event_type, what, name, value) ==
    [cell |-> cell, event |-> event_type, what |-> what, name |-> name, value |-> value]

\* the lines an earlier execution left in events.jsonl
StaleLines == <<Line(0, "stage_update", "seed_check", "", 0),
                Line(0, "metric_update", "accuracy", "", 0)>>

KernelStart(env) ==
    [started |-> TRUE, cell |-> 2, pc |-> 1, status |-> "running", error |-> "",
     names |-> Builtins, env |-> env,
     events |-> IF env.stale THEN StaleLines ELSE <<>>,
     metrics |-> IF env.stale THEN "stale" ELSE "absent",
     TORCH_AVAILABLE |-> FALSE, seeded |-> {},
     SEED |-> -1, OFFLINE_MODE |-> FALSE, MAX_SAMPLES |-> 0,
     cache |-> "unknown", downloads |-> 0, loaded |-> 0, capped |-> FALSE,
     rows |-> <<>>, train_dataset |-> <<>>, test_dataset |-> <<>>,
     X |-> <<>>, y |-> <<>>, indices |-> <<>>,
     X_train |-> <<>>, y_train |-> <<>>, X_test |-> <<>>, y_test |-> <<>>,
     seeds |-> {}, split |-> SplitIdle]

Fail(r, error) == [r EXCEPT !.status = "failed", !.error = error]

Bind(r, step) == [r EXCEPT !.names = @ \cup step.defines]

\* sklearn.model_selection.train_test_split(X, y, test_size, random_state):
\* n_test = ceil(test_size * n), the first n_test entries of the seeded
\* permutation are the test rows and the others the train rows
train_test_split(r, step, seed) ==
    LET n == Len(r.X)
        n_test == (n * step.n + 99) \div 100
        perm == Permutation(seed, n)
        test == SubSeq(perm, 1, n_test)
        train == SubSeq(perm, n_test + 1, n)
    IN  IF n - n_test = 0 THEN Fail(r, "ValueError")
        ELSE [Bind(r, step) EXCEPT
                !.X_train = Take(r.X, train), !.X_test = Take(r.X, test),
                !.y_train = Take(r.y, train), !.y_test = Take(r.y, test),
                !.seeds = @ \cup {seed},
                !.split = [called |-> TRUE, test_percent |-> step.n, seed |-> seed, of |-> r.X]]

\* the if statement of the resource cap
subsample(r, step, seed) ==
    LET arr == IF step.on = "X" THEN r.X ELSE r.X_train
        indices == choice(seed, Len(arr), r.MAX_SAMPLES)
    IN  IF ~(Len(arr) > r.MAX_SAMPLES) THEN r
        ELSE IF step.on = "X"
        THEN [Bind(r, step) EXCEPT !.indices = indices, !.capped = TRUE,
                !.X = Take(r.X, indices), !.y = Take(r.y, indices),
                !.seeds = @ \cup {seed}]
        ELSE [Bind(r, step) EXCEPT !.indices = indices, !.capped = TRUE,
                !.X_train = Take(r.X_train, indices), !.y_train = Take(r.y_train, indices),
                !.seeds = @ \cup {seed}]

\* datasets.<Class>(root=CACHE_DIR, train=..., download=..., transform=...):
\* with download the files under root are used when they are there and
\* fetched when they are not; without it their absence is a RuntimeError
torchvision_dataset(r, step) ==
    LET download == step.opt = "download=not OFFLINE_MODE" /\ ~r.OFFLINE_MODE
        loaded(q) ==
            IF step.on = "train"
            THEN {[Bind(q, step) EXCEPT !.train_dataset = Samples(n)] : n \in 1..MaxLoaded}
            ELSE {[Bind(q, step) EXCEPT !.test_dataset = TestSamples(n)] : n \in {1, MaxLoaded}}
        found == loaded([r EXCEPT !.cache = "present"])
        missing ==
            IF download
            THEN loaded([r EXCEPT !.cache = "present", !.downloads = @ + 1])
                 \cup {Fail([r EXCEPT !.cache = "absent", !.downloads = @ + 1], "URLError")}
            ELSE {Fail([r EXCEPT !.cache = "absent"], "RuntimeError")}
    IN  CASE r.cache = "present" -> found
          [] r.cache = "absent" -> missing
          [] OTHER -> found \cup missing

\* load_dataset(path, cache_dir=CACHE_DIR, download_mode="reuse_dataset_if_exists"):
\* the prepared dataset under cache_dir is reused when it is there and is
\* downloaded when it is not
load_dataset(r, step) ==
    LET loaded(q) == {[Bind(q, step) EXCEPT !.rows = Samples(n), !.loaded = n] : n \in 1..MaxLoaded}
        found == loaded([r EXCEPT !.cache = "present"])
        missing ==
            loaded([r EXCEPT !.cache = "present", !.downloads = @ + 1])
            \cup {Fail([r EXCEPT !.cache = "absent", !.downloads = @ + 1], "ConnectionError")}
    IN  CASE r.cache = "present" -> found
          [] r.cache = "absent" -> missing
          [] OTHER -> found \cup missing

\* log_event as the setup cell defines it: one line appended to events.jsonl
log_event(r, event_type, what, name, value) ==
    [r EXCEPT !.events = Append(@, Line(r.cell, event_type, what, name, value))]

\* the events of a statement of the tabular cell, appended in their order
RECURSIVE log_events(_, _)
log_events(r, events) ==
    IF events = <<>> THEN r
    ELSE log_events(log_event(r, Head(events).event, Head(events).payload[1], "", 0),
                    Tail(events))

\* what a log_event statement writes as the value of its payload
PayloadValue(r, step) ==
    CASE step.opt = "seed_check" -> r.SEED
      [] step.opt = "dataset_samples" ->
            IF "X_train" \in step.reads THEN Len(r.X_train) ELSE Len(r.X)
      [] step.opt = "dataset_rows" -> Len(r.rows)
      [] OTHER -> 0

\* seed_everything(SEED) without its test for CUDA devices
seed_everything_unchecked(r, step) ==
    [Bind(r, step) EXCEPT
        !.seeds = @ \cup {r.SEED},
        !.seeded = @ \cup {"random", "numpy"} \cup (IF r.TORCH_AVAILABLE THEN {"torch"} ELSE {})]

\* seed_everything(SEED): random, numpy and, when importable, torch are
\* seeded; a CUDA device is a RuntimeError
seed_everything(r, step) ==
    LET seeded == [Bind(r, step) EXCEPT
                     !.seeds = @ \cup {r.SEED},
                     !.seeded = @ \cup {"random", "numpy"}]
    IN  IF ~r.TORCH_AVAILABLE THEN seeded
        ELSE IF r.env.torch = "cuda"
        THEN Fail([seeded EXCEPT !.seeded = @ \cup {"torch"}], "RuntimeError: E_GPU_REQUESTED")
        ELSE [seeded EXCEPT !.seeded = @ \cup {"torch"}]

\* the frame the tabular statements of the kernel work on
KernelFrame(r) == DataFrame(r.env.sheet, r.rows, {})

\* the states a kernel can be in after executing one statement
exec(step, r) ==
    IF ~(step.reads \subseteq r.names) THEN {Fail(r, "NameError")}
    ELSE CASE step.op = "assign_seed" ->
                {[Bind(r, step) EXCEPT !.SEED = int(step.opt)]}
           [] step.op = "try_import_torch" ->
                {[Bind(r, step) EXCEPT !.TORCH_AVAILABLE = (r.env.torch # "absent")]}
           [] step.op = "unlink_if_exists" ->
                IF "EVENTS_PATH" \in step.reads
                THEN {[Bind(r, step) EXCEPT !.events = <<>>]}
                ELSE {[Bind(r, step) EXCEPT !.metrics = "absent"]}
           [] step.op = "seed_everything" ->
                {seed_everything(r, step)}
           [] step.op = "log_event" ->
                {log_event(Bind(r, step), step.logs[1], step.opt, step.on, PayloadValue(r, step))}
           [] step.op = "write_metrics" ->
                {[Bind(r, step) EXCEPT !.metrics = "written"]}
           [] step.op = "detect_target_column" ->
                LET detected == detect_target_column(KernelFrame(r))
                IN  IF detected.error # "" THEN {Fail(r, detected.error)}
                    ELSE {log_events(Bind(r, step), detected.events)}
           [] step.op = "drop_high_cardinality" ->
                LET frame == KernelFrame(r)
                    features == drop(frame.columns, detect_target_column(frame).target_column)
                IN  {log_events(Bind(r, step), drop_high_cardinality(features).events)}
           [] step.op = "getenv_offline_mode" ->
                {[Bind(r, step) EXCEPT
                    !.OFFLINE_MODE = (lower(getenv(r.env.OFFLINE_MODE, "false")) = "true")]}
           [] step.op = "getenv_max_samples" ->
                {[Bind(r, step) EXCEPT
                    !.MAX_SAMPLES = int(getenv(r.env.MAX_TRAIN_SAMPLES, step.opt))]}
           [] step.op = "make_classification" ->
                {[Bind(r, step) EXCEPT !.X = Samples(step.n), !.y = Samples(step.n),
                    !.loaded = step.n, !.seeds = @ \cup {seed}] : seed \in SeedValues(r, step)}
           [] step.op = "load_bundled" ->
                {[Bind(r, step) EXCEPT !.X = Samples(n), !.y = Samples(n), !.loaded = n]
                    : n \in 1..MaxLoaded}
           [] step.op = "torchvision_dataset" -> torchvision_dataset(r, step)
           [] step.op = "to_numpy" ->
                IF step.on = "train"
                THEN {[Bind(r, step) EXCEPT !.X_train = r.train_dataset,
                         !.y_train = r.train_dataset, !.loaded = Len(r.train_dataset)]}
                ELSE {[Bind(r, step) EXCEPT !.X_test = r.test_dataset, !.y_test = r.test_dataset]}
           [] step.op = "load_dataset" -> load_dataset(r, step)
           [] step.op = "detect_text_field" ->
                {Bind(r, step), Fail(r, "ValueError")}
           [] step.op = "vectorize" ->
                {[Bind(r, step) EXCEPT !.X = r.rows, !.y = r.rows]}
           [] step.op = "raise_unless_exists" ->
                IF r.env.file_on_disk THEN {Bind(r, step)} ELSE {Fail(r, "FileNotFoundError")}
           [] step.op = "read_excel" ->
                IF step.on = "uploaded"
                THEN {[Bind(r, step) EXCEPT !.rows = Samples(n), !.loaded = n] : n \in 1..MaxLoaded}
                ELSE {[Bind(r, step) EXCEPT !.rows = Samples(n), !.loaded = n] : n \in 1..MaxLoaded}
                     \cup {Fail(r, "FileNotFoundError")}
           [] step.op = "dropna" ->
                {LET cleaned == [Bind(r, step) EXCEPT
                                    !.rows = SubSeq(r.rows, 1, Len(r.rows) - missing),
                                    !.loaded = Len(r.rows) - missing]
                 IN  IF missing > 0
                     THEN log_event(cleaned, "info", "Dropped rows with missing values", "", missing)
                     ELSE cleaned
                 : missing \in 0..1}
           [] step.op = "separate_target" ->
                {[Bind(r, step) EXCEPT !.y = r.rows]}
           [] step.op = "values" ->
                {[Bind(r, step) EXCEPT !.X = r.rows]}
           [] step.op = "subsample" ->
                {LET sampled == subsample(r, step, seed)
                 IN  IF step.logs # <<>> /\ sampled.capped
                     THEN log_event(sampled, "info", "Subsampled", "", r.MAX_SAMPLES)
                     ELSE sampled
                 : seed \in SeedValues(r, step)}
           [] step.op = "train_test_split" ->
                {train_test_split(r, step, seed) : seed \in SeedValues(r, step)}
           [] OTHER -> {Bind(r, step)}

\* the statement the kernel is at
CurrentStep(r, pl, id, p) == notebook_steps(pl, id, p)[r.cell][r.pc]

\* on to the next statement, the next cell, or the end of the notebook
Advance(r, pl, id, p) ==
    IF r.status # "running" THEN r
    ELSE IF r.pc < Len(notebook_steps(pl, id, p)[r.cell]) THEN [r EXCEPT !.pc = @ + 1]
    ELSE IF r.cell < 5 THEN [r EXCEPT !.cell = @ + 1, !.pc = 1]
    ELSE [r EXCEPT !.status = "done"]

(***************************************************************************)
(* Idle values of the outcome variables                                    *)
(***************************************************************************)
FactoryIdle ==
    [called |-> FALSE, raised |-> FALSE, gen |-> SyntheticDatasetGenerator,
     log |-> <<>>, lookups |-> 0]

ValidationIdle == [called |-> FALSE, raised |-> FALSE, valid |-> FALSE, errors |-> <<>>]

NotebookBytesIdle == NotebookBytes("notebook", <<>>)

IdlePlan ==
    [dataset |-> [name |-> "iris", split |-> PyNone],
     model |-> [name |-> "logistic"], config |-> [seed |-> 42]]

RequirementsIdle ==
    [called |-> FALSE, plan |-> IdlePlan, requirements |-> {},
     requirements_text |-> <<>>, env_hash |-> sha256_hexdigest(<<>>)]

NotebookIdle ==
    [called |-> FALSE, plan |-> IdlePlan, plan_id |-> PyNone, paper |-> PaperNone,
     bytes |-> NotebookBytesIdle, metadata |-> notebook_metadata]

\* no kernel has been started
RunIdle == [started |-> FALSE]

\* no request thread has been started
ConcIdle == [started |-> FALSE]

\* no request of the gateway or the storyboard router, and no cell body, under way
Idle == [started |-> FALSE]

ServicesIdle ==
    /\ tabular = Idle
    /\ corpus = Idle
    /\ registry = Idle
    /\ relay = Idle
    /\ gateway = Idle
    /\ story = Idle

(***************************************************************************)
(* Specification of the factory: one call on any plan and optional paper   *)
(***************************************************************************)
InitFactory ==
    /\ plan \in Plans
    /\ paper \in Papers
    /\ plan_id = "plan-1"
    /\ factory_out = FactoryIdle
    /\ nb_bytes = NotebookBytesIdle
    /\ vresult = ValidationIdle
    /\ req_out = RequirementsIdle
    /\ req_prev = RequirementsIdle
    /\ nb_out = NotebookIdle
    /\ nb_prev = NotebookIdle
    /\ run = RunIdle
    /\ conc = ConcIdle
    /\ ServicesIdle

GetDatasetGenerator ==
    /\ ~factory_out.called
    /\ factory_out' = get_dataset_generator(plan, paper)
    /\ UNCHANGED <<plan, paper, plan_id, nb_bytes, vresult, req_out, req_prev, nb_out, nb_prev, run, conc,
                   tabular, corpus, registry, relay, gateway, story>>

NextFactory == GetDatasetGenerator

SpecFactory == InitFactory /\ [][NextFactory]_vars

(***************************************************************************)
(* Specification of the validator: a notebook document is put together     *)
(* cell by cell, or unreadable bytes arrive, and validate is called once   *)
(***************************************************************************)
MaxCells == 3

CellSources ==
    { <<"x">>,
      <<"x", "(", "x", ")">>,
      <<"x", "(", "x">>,
      <<"x", ")">>,
      <<NUL>>,
      <<NUL, "(">>,
      <<"CountVectorizer", "(", "x", ")">>,
      <<"CountVectorizer", "(", "random_state=", ")">>,
      <<"CountVectorizer", "(", "random_state=", ")", "CountVectorizer", "(", "x", "random_state=", ")">>,
      <<"CountVectorizer", "(", "x", "(", ")", "random_state=", ")">>,
      <<"CountVectorizer", "(", "x", "(", "random_state=", ")", ")">>,
      <<"CountVectorizer", "(", "random_state=">>,
      <<"TfidfVectorizer", "(", "random_state=", ")", "HashingVectorizer", "(", "x", ")">>,
      <<"HashingVectorizer", "(", "x", "random_state=", ")", "TfidfVectorizer", "(", "random_state=", ")">>,
      <<"random_state=", "CountVectorizer", "(", ")">> }

CellValues ==
    {CodeCell(source) : source \in CellSources}
    \cup {MarkdownCell(<<"x">>),
          MarkdownCell(<<"CountVectorizer", "(", "random_state=">>),
          Cell("raw", TRUE, <<"x", "(">>),
          Cell(PyNone, TRUE, <<"x">>),
          Cell("code", FALSE, <<>>)}

InitValidate ==
    /\ plan = IdlePlan
    /\ paper = PaperNone
    /\ plan_id = "plan-1"
    /\ factory_out = FactoryIdle
    /\ nb_bytes = NotebookBytesIdle
    /\ vresult = ValidationIdle
    /\ req_out = RequirementsIdle
    /\ req_prev = RequirementsIdle
    /\ nb_out = NotebookIdle
    /\ nb_prev = NotebookIdle
    /\ run = RunIdle
    /\ conc = ConcIdle
    /\ ServicesIdle

\* the document gains a cell
AppendCell ==
    /\ ~vresult.called
    /\ nb_bytes.kind = "notebook"
    /\ Len(nb_bytes.cells) < MaxCells
    /\ \E cell \in CellValues :
          nb_bytes' = NotebookBytes("notebook", Append(nb_bytes.cells, cell))
    /\ UNCHANGED <<plan, paper, plan_id, factory_out, vresult, req_out, req_prev, nb_out, nb_prev, run, conc,
                   tabular, corpus, registry, relay, gateway, story>>

\* bytes arrive that nbformat cannot read
ReceiveUnreadable ==
    /\ ~vresult.called
    /\ nb_bytes = NotebookBytesIdle
    /\ \E kind \in ByteKinds \ {"notebook"} : nb_bytes' = NotebookBytes(kind, <<>>)
    /\ UNCHANGED <<plan, paper, plan_id, factory_out, vresult, req_out, req_prev, nb_out, nb_prev, run, conc,
                   tabular, corpus, registry, relay, gateway, story>>

Validate ==
    /\ ~vresult.called
    /\ vresult' = validate(nb_bytes)
    /\ UNCHANGED <<plan, paper, plan_id, factory_out, nb_bytes, req_out, req_prev, nb_out, nb_prev, run, conc,
                   tabular, corpus, registry, relay, gateway, story>>

NextValidate == AppendCell \/ ReceiveUnreadable \/ Validate

SpecValidate == InitValidate /\ [][NextValidate]_vars

(***************************************************************************)
(* Claims on the validator                                                 *)
(***************************************************************************)
\* the indices (0-based) of the cells of the document under validation
CellIndices == 0..(Len(nb_bytes.cells) - 1)

CellAt(i) == nb_bytes.cells[i + 1]

\* every cell of the document has its cell_type and its source text
WellFormedNotebook ==
    /\ nb_bytes.kind = "notebook"
    /\ \A i \in CellIndices : CellAt(i).cell_type # PyNone /\ CellAt(i).has_source

\* how many errors of the result satisfy Test
ErrorCount(Test(_)) == Len(SelectSeq(vresult.errors, Test))

\* C3: validate returns a result for every input and never raises, valid holds
\* exactly when errors is empty, and unreadable bytes give valid = false with the
\* parse error as the only error.
C3_ValidateTotal ==
    vresult.called =>
        /\ ~vresult.raised
        /\ vresult.valid <=> vresult.errors = <<>>
        /\ nb_bytes.kind # "notebook" =>
              /\ ~vresult.valid
              /\ Len(vresult.errors) = 1
              /\ vresult.errors[1].check = "parse"

IsSyntaxError(e) == e.check \in {"syntax", "compilation"}
IsParamError(e) == e.check = "sklearn_param"

\* the code cells that do not compile
FailingCells ==
    {i \in CellIndices : CellAt(i).cell_type = "code" /\ compile(CellAt(i).source) # "ok"}

\* the code cells and rule table classes for which the parameter check must report
FlaggedCalls ==
    {<<i, class_name>> \in CellIndices \X DOMAIN SKLEARN_PARAM_RULES :
        /\ CellAt(i).cell_type = "code"
        /\ ParamPattern(CellAt(i).source, class_name, "random_state")}

\* C4: on a document whose cells are well formed the result holds one syntax
\* error per code cell that fails to compile, in ascending cell order, each
\* citing the cell's index among all cells; markdown and raw cells are never
\* checked; the parameter errors of every code cell, failing or not, follow all
\* the syntax errors.
C4_CollectAll ==
    (vresult.called /\ WellFormedNotebook) =>
        LET syntax == SelectSeq(vresult.errors, IsSyntaxError)
            params == SelectSeq(vresult.errors, IsParamError)
        IN  /\ ~vresult.raised
            /\ vresult.errors = syntax \o params
            /\ Len(syntax) = Cardinality(FailingCells)
            /\ {syntax[k].cell : k \in 1..Len(syntax)} = FailingCells
            /\ \A k \in 1..(Len(syntax) - 1) : syntax[k].cell < syntax[k + 1].cell
            /\ {<<params[k].cell, params[k].class_name>> : k \in 1..Len(params)} = FlaggedCalls

\* two code cells fail behind a markdown cell, and the later one is also
\* reported by the parameter check
C4_Witness ==
    /\ vresult.called /\ WellFormedNotebook
    /\ Len(nb_bytes.cells) = 3
    /\ CellAt(0).cell_type = "markdown"
    /\ FailingCells = {1, 2}
    /\ vresult.errors = <<SyntaxErrorMsg(1), SyntaxErrorMsg(2),
                          ParamErrorMsg(2, "CountVectorizer", "random_state")>>

\* the call of class_name that opens at source[a + 1] holds random_state= as
\* an argument of its own: the call is still open there, inside no nested
\* parenthesis
OwnArgument(source, a, b) ==
    /\ source[b] = "random_state="
    /\ \A k \in (a + 1)..(b - 1) : ParenDepth(source, k) - ParenDepth(source, a) >= 1
    /\ ParenDepth(source, b - 1) - ParenDepth(source, a) = 1

InvokesWithRandomState(source, class_name) ==
    \E a \in 1..(Len(source) - 1) :
        /\ source[a] = class_name
        /\ source[a + 1] = "("
        /\ \E b \in (a + 2)..Len(source) : OwnArgument(source, a, b)

UsesConstruct(source, class_name) == \E a \in 1..Len(source) : source[a] = class_name

ParamErrorsFor(i, class_name) ==
    LET Test(e) == e = ParamErrorMsg(i, class_name, "random_state")
    IN  ErrorCount(Test)

ParamErrorsAbout(i, class_name) ==
    LET Test(e) == e.check = "sklearn_param" /\ e.cell = i /\ e.class_name = class_name
    IN  ErrorCount(Test)

SyntaxErrorsFor(i) ==
    LET Test(e) == IsSyntaxError(e) /\ e.cell = i
    IN  ErrorCount(Test)

\* C5 as claimed: a code cell that calls a rule table class with random_state
\* among that call's arguments gets exactly one parameter error naming cell,
\* class and parameter; a cell that uses the class without it gets none; a cell
\* with unbalanced parentheses gets exactly one syntax error citing its index.
C5_AsClaimed ==
    (vresult.called /\ WellFormedNotebook) =>
        \A i \in CellIndices :
            CellAt(i).cell_type = "code" =>
                /\ \A class_name \in DOMAIN SKLEARN_PARAM_RULES :
                      /\ InvokesWithRandomState(CellAt(i).source, class_name)
                            => ParamErrorsFor(i, class_name) = 1
                      /\ (UsesConstruct(CellAt(i).source, class_name)
                            /\ ~InvokesWithRandomState(CellAt(i).source, class_name))
                            => ParamErrorsAbout(i, class_name) = 0
                /\ ~Balanced(CellAt(i).source) => SyntaxErrorsFor(i) = 1

\* the text of the cell holds class_name, "(" and then random_state= with no
\* ")" in between
RandomStateBeforeClose(source, class_name) ==
    \E a \in 1..(Len(source) - 1), b \in 1..Len(source) :
        /\ source[a] = class_name
        /\ source[a + 1] = "("
        /\ b > a + 1
        /\ source[b] = "random_state="
        /\ ~\E k \in (a + 2)..(b - 1) : source[k] = ")"

\* C5 (amended): a code cell whose text holds a rule table class name followed
\* by "(" and, before any ")", by random_state= gets exactly one parameter error
\* for that class, naming cell, class and parameter, however often this occurs;
\* a code cell without such text for a class gets no parameter error for it; a
\* code cell with unbalanced parentheses gets exactly one error of the syntax
\* check, citing its own index.
C5_TextualMatch ==
    (vresult.called /\ WellFormedNotebook) =>
        \A i \in CellIndices :
            CellAt(i).cell_type = "code" =>
                /\ \A class_name \in DOMAIN SKLEARN_PARAM_RULES :
                      /\ RandomStateBeforeClose(CellAt(i).source, class_name)
                            => ParamErrorsFor(i, class_name) = 1
                      /\ ~RandomStateBeforeClose(CellAt(i).source, class_name)
                            => ParamErrorsAbout(i, class_name) = 0
                /\ ~Balanced(CellAt(i).source) => SyntaxErrorsFor(i) = 1

\* a cell behind a markdown cell calls CountVectorizer with random_state twice
\* and is reported once
C5_Witness ==
    /\ vresult.called /\ WellFormedNotebook
    /\ Len(nb_bytes.cells) = 2
    /\ CellAt(0).cell_type = "markdown"
    /\ CellAt(1) = CodeCell(<<"CountVectorizer", "(", "random_state=", ")",
                              "CountVectorizer", "(", "x", "random_state=", ")">>)
    /\ vresult.errors = <<ParamErrorMsg(1, "CountVectorizer", "random_state")>>

(***************************************************************************)
(* Claims on the factory                                                   *)
(***************************************************************************)
\* the paper carries a staged upload: it exists and its dataset_storage_path
\* is neither None nor empty
UploadStaged == paper.none = FALSE /\ paper.dataset_storage_path \notin {PyNone, ""}

VariantOfSource(metadata) ==
    IF metadata = MetaNone THEN "SyntheticDatasetGenerator"
    ELSE IF metadata.source = "sklearn" THEN "SklearnDatasetGenerator"
    ELSE IF metadata.source = "torchvision" THEN "TorchvisionDatasetGenerator"
    ELSE IF metadata.source = "huggingface" THEN "HuggingFaceDatasetGenerator"
    ELSE IF metadata.source = "excel" THEN "ExcelDatasetGenerator"
    ELSE "SyntheticDatasetGenerator"

\* C2: without an upload the call never raises, looks the name up once, and
\* returns the variant of the found entry's source (built on that entry), or the
\* synthetic generator on a miss or an unrecognized source; an entry above
\* 200 MB adds a warning to the log and changes nothing else.
C2_RegistryDispatch ==
    (factory_out.called /\ ~UploadStaged) =>
        LET metadata == lookup_dataset(plan.dataset.name)
            variant == VariantOfSource(metadata)
        IN  /\ ~factory_out.raised
            /\ factory_out.lookups = 1
            /\ factory_out.gen.variant = variant
            /\ variant # "SyntheticDatasetGenerator" => factory_out.gen.metadata = metadata
            /\ variant = "ExcelDatasetGenerator" => factory_out.gen.paper = paper
            /\ (\E i \in 1..Len(factory_out.log) :
                    factory_out.log[i] = LogRecord("warning", "size"))
                  <=> (metadata # MetaNone /\ metadata.typical_size_mb > 200)

\* a 201 MB vision entry is selected as such, with the advisory logged
C2_Witness ==
    /\ factory_out.called /\ ~UploadStaged
    /\ plan.dataset.name = "LargeVision"
    /\ factory_out.gen.variant = "TorchvisionDatasetGenerator"
    /\ factory_out.log[1] = LogRecord("warning", "size")

(***************************************************************************)
(* Specification of the builder: for a plan, a plan id and an optional     *)
(* paper the requirements are built, any number of times, and the notebook *)
(* is built, in any order                                                  *)
(***************************************************************************)
PlanIds == {"plan-A", "plan-B"}

InitBuild ==
    /\ plan \in Plans
    /\ paper \in Papers
    /\ plan_id \in PlanIds
    /\ factory_out = FactoryIdle
    /\ nb_bytes = NotebookBytesIdle
    /\ vresult = ValidationIdle
    /\ req_out = RequirementsIdle
    /\ req_prev = RequirementsIdle
    /\ nb_out = NotebookIdle
    /\ nb_prev = NotebookIdle
    /\ run = RunIdle
    /\ conc = ConcIdle
    /\ ServicesIdle

\* what a build_requirements call leaves behind: its plan, the set of the
\* strings of the three lists it read, and the pair it returned
RequirementsReturn(pl, base, dataset_reqs, model_reqs, out) ==
    [called |-> TRUE, plan |-> pl,
     requirements |-> set(base) \cup set(dataset_reqs) \cup set(model_reqs),
     requirements_text |-> out.requirements_text, env_hash |-> out.env_hash]

BuildRequirements ==
    /\ req_out' = RequirementsReturn(plan, DEFAULT_REQUIREMENTS,
                      generate_requirements(requirements_dataset_gen(plan), plan),
                      generate_requirements(get_model_generator(plan), plan),
                      build_requirements(plan))
    /\ req_prev' = req_out
    /\ UNCHANGED <<plan, paper, plan_id, factory_out, nb_bytes, vresult, nb_out, nb_prev, run, conc,
                   tabular, corpus, registry, relay, gateway, story>>

RECURSIVE Reverse(_)
Reverse(list) == IF list = <<>> THEN <<>> ELSE Append(Reverse(Tail(list)), Head(list))

\* a list with its entries reordered or repeated
Rewritings(list) ==
    {list, Reverse(list), list \o list, Tail(list) \o <<Head(list)>> \o Reverse(list)}

\* build_requirements with the base list and the generators' lists rewritten
BuildRequirementsRewritten ==
    /\ \E base \in Rewritings(DEFAULT_REQUIREMENTS),
          dataset_reqs \in Rewritings(generate_requirements(requirements_dataset_gen(plan), plan)),
          model_reqs \in Rewritings(generate_requirements(get_model_generator(plan), plan)) :
          req_out' = RequirementsReturn(plan, base, dataset_reqs, model_reqs,
                        build_requirements_from(base, dataset_reqs, model_reqs))
    /\ req_prev' = req_out
    /\ UNCHANGED <<plan, paper, plan_id, factory_out, nb_bytes, vresult, nb_out, nb_prev, run, conc,
                   tabular, corpus, registry, relay, gateway, story>>

\* the identifiers the five cell constructors of one call draw
CellIdDraws ==
    {<<"1f3a9c02", "b7e0d455", "0c9e4e1a", "5d2f8b70", "e4a61c93">>,
     <<"9a0b37de", "63c1f248", "d81e05b6", "2b74a9f1", "f05c6d3e">>}

BuildNotebook ==
    /\ ~nb_out.called
    /\ \E cell_ids \in CellIdDraws :
          nb_out' = [called |-> TRUE, plan |-> plan, plan_id |-> plan_id, paper |-> paper]
                        @@ build_notebook_bytes(plan, plan_id, paper, cell_ids)
    /\ UNCHANGED <<plan, paper, plan_id, factory_out, nb_bytes, vresult, req_out, req_prev, nb_prev, run, conc,
                   tabular, corpus, registry, relay, gateway, story>>

NextBuild == BuildRequirements \/ BuildRequirementsRewritten \/ BuildNotebook

SpecBuild == InitBuild /\ [][NextBuild]_vars

(***************************************************************************)
(* Claims on the builder                                                   *)
(***************************************************************************)
\* the set of requirement strings of a plan: base, dataset generator, model generator
RequirementSet(pl) ==
    set(DEFAULT_REQUIREMENTS)
    \cup set(generate_requirements(get_dataset_generator(pl, PaperNone).gen, pl))
    \cup set(generate_requirements(get_model_generator(pl), pl))

\* C6: manifest text and environment hash depend on the set of requirement
\* strings only: a call and the call before it on the same plan, with the lists
\* as they are or with entries reordered or repeated, return the same text and
\* hash, and so does a call on any other plan with the same requirement set.
C6_SetDetermines ==
    /\ (req_prev.called /\ req_out.called /\ req_prev.requirements = req_out.requirements) =>
          /\ req_prev.requirements_text = req_out.requirements_text
          /\ req_prev.env_hash = req_out.env_hash
    /\ req_out.called =>
          \A other \in Plans :
              RequirementSet(other) = req_out.requirements =>
                  /\ build_requirements(other).requirements_text = req_out.requirements_text
                  /\ build_requirements(other).env_hash = req_out.env_hash

\* two calls on a synthetic-fallback plan were made, and a bundled-dataset plan
\* has the same set and the same hash
C6_Witness ==
    /\ req_prev.called /\ req_out.called
    /\ plan.dataset.name = "totally_unknown_xyz"
    /\ req_prev.env_hash = req_out.env_hash
    /\ \E other \in Plans :
          /\ other.dataset.name = "iris"
          /\ RequirementSet(other) = req_out.requirements
          /\ build_requirements(other).env_hash = req_out.env_hash

\* the lines of a text: the pieces between its newlines
TextLines(text) == SelectSeq(text, LAMBDA piece : piece # "\n")

\* C7: the manifest lists exactly the union of the base list, the dataset
\* generator's and the model generator's requirements, each string once, in
\* ascending order, every line followed by a newline, and the hash is the digest
\* of these lines joined by newlines.
C7_ManifestShape ==
    req_out.called =>
        LET text == req_out.requirements_text
            lines == TextLines(text)
        IN  /\ Len(text) = 2 * Len(lines)
            /\ \A k \in 1..Len(lines) : text[2 * k - 1] = lines[k] /\ text[2 * k] = "\n"
            /\ {lines[k] : k \in 1..Len(lines)} = RequirementSet(req_out.plan)
            /\ \A k \in 1..Len(DEFAULT_REQUIREMENTS) :
                  \E j \in 1..Len(lines) : lines[j] = DEFAULT_REQUIREMENTS[k]
            /\ \A j, k \in 1..Len(lines) : j < k => StrLess(lines[j], lines[k])
            /\ req_out.env_hash = sha256_hexdigest(SubSeq(text, 1, Len(text) - 1))

\* the manifest of a vision plan: seven lines, torch before torchvision
C7_Witness ==
    /\ req_out.called
    /\ plan.dataset.name = "MNIST"
    /\ Len(TextLines(req_out.requirements_text)) = 7
    /\ TextLines(req_out.requirements_text)[6] = "torch==2.1.0"
    /\ TextLines(req_out.requirements_text)[7] = "torchvision==0.16.0"

\* the generators a dataset cell can come from
DatasetGenerators ==
    {SyntheticDatasetGenerator}
    \cup {SklearnDatasetGenerator(m) : m \in {DATASET_REGISTRY[k] : k \in DOMAIN DATASET_REGISTRY}}
    \cup {TorchvisionDatasetGenerator(m) : m \in {DATASET_REGISTRY[k] : k \in DOMAIN DATASET_REGISTRY}}
    \cup {HuggingFaceDatasetGenerator(m) : m \in {DATASET_REGISTRY[k] : k \in DOMAIN DATASET_REGISTRY}}
    \cup {ExcelDatasetGenerator(m, p) :
            m \in {DATASET_REGISTRY[k] : k \in DOMAIN DATASET_REGISTRY} \cup {uploaded_metadata},
            p \in Papers}

DatasetCell(out) == out.bytes.cells[4]

\* C8 as claimed: the requirements of the generator whose code body is the
\* notebook's dataset cell are all in the manifest built for the same plan.
C8_SameGenerator ==
    (req_out.called /\ nb_out.called /\ req_out.plan = nb_out.plan) =>
        \A gen \in DatasetGenerators :
            DatasetCell(nb_out).source = generate_code(gen, nb_out.plan) =>
                set(generate_requirements(gen, nb_out.plan))
                    \subseteq set(TextLines(req_out.requirements_text))

IsPinned(line) ==
    \E pkg \in {"numpy", "scikit-learn", "pandas", "matplotlib", "jupyter", "torch",
                "torchvision", "xlrd", "openpyxl", "datasets"},
       version \in {"1.26.4", "1.5.1", "2.2.2", "3.9.0", "1.1.1", "2.1.0", "0.16.0",
                    "2.0.1", "3.1.0", "2.14.0"} :
        line = pkg \o "==" \o version

\* C9 as claimed: every line of every manifest is a pinned package==version entry.
C9_AllPinned ==
    req_out.called =>
        \A k \in 1..Len(TextLines(req_out.requirements_text)) :
            IsPinned(TextLines(req_out.requirements_text)[k])

\* C10: the notebook has five cells: a markdown cell naming the plan id, the
\* setup code cell, a code cell with the deduplicated, ascending union of the
\* two generators' import statements (one per line), the dataset generator's
\* code body and the model generator's code body.
C10_FiveCells ==
    nb_out.called =>
        LET cells == nb_out.bytes.cells
            dataset_gen == get_dataset_generator(nb_out.plan, nb_out.paper).gen
            model_gen == get_model_generator(nb_out.plan)
            union == set(generate_imports(dataset_gen, nb_out.plan))
                        \cup set(generate_imports(model_gen, nb_out.plan))
        IN  /\ Len(cells) = 5
            /\ cells[1].cell_type = "markdown"
            /\ \E n \in 1..Len(cells[1].source) : cells[1].source[n] = nb_out.plan_id
            /\ \A n \in 2..5 : cells[n].cell_type = "code"
            /\ cells[2].source = setup_code(nb_out.plan, nb_out.plan_id)
            /\ LET lines == TextLines(cells[3].source)
               IN  IF union = {}
                   THEN cells[3].source = <<"# No additional imports needed">>
                   ELSE /\ {lines[k] : k \in 1..Len(lines)} = union
                        /\ \A j, k \in 1..Len(lines) : j < k => StrLess(lines[j], lines[k])
                        /\ Len(cells[3].source) = 2 * Len(lines) - 1
                        /\ \A k \in 1..Len(lines) : cells[3].source[2 * k - 1] = lines[k]
            /\ cells[4].source = generate_code(dataset_gen, nb_out.plan)
            /\ cells[5].source = generate_code(model_gen, nb_out.plan)

\* the notebook of an upload: the dataset cell is the uploaded-file body and
\* the imports cell holds six lines
C10_Witness ==
    /\ nb_out.called
    /\ UploadStaged
    /\ plan_id = "plan-B"
    /\ nb_out.bytes.cells[1].source[2] = "plan-B"
    /\ Len(TextLines(nb_out.bytes.cells[3].source)) = 6
    /\ nb_out.bytes.cells[4].source[3] = "dataset_path = shootouts.xls"

(***************************************************************************)
(* Specification of repeated builds: build_notebook_bytes is invoked twice *)
(* for one plan, plan id and paper                                         *)
(***************************************************************************)
BuildNotebookAgain ==
    /\ nb_out.called
    /\ ~nb_prev.called
    /\ \E cell_ids \in CellIdDraws :
          nb_out' = [called |-> TRUE, plan |-> plan, plan_id |-> plan_id, paper |-> paper]
                        @@ build_notebook_bytes(plan, plan_id, paper, cell_ids)
    /\ nb_prev' = nb_out
    /\ UNCHANGED <<plan, paper, plan_id, factory_out, nb_bytes, vresult, req_out, req_prev, run, conc,
                   tabular, corpus, registry, relay, gateway, story>>

NextRebuild == BuildNotebook \/ BuildNotebookAgain

SpecRebuild == InitBuild /\ [][NextRebuild]_vars

\* C11 as claimed: two invocations of build_notebook_bytes for the same plan,
\* plan id and paper return the same bytes: the same cells with the same
\* sources and identifiers in the same order, and the same metadata.
C11_ByteIdentical ==
    (nb_out.called /\ nb_prev.called) =>
        /\ nb_out.bytes = nb_prev.bytes
        /\ nb_out.metadata = nb_prev.metadata

(***************************************************************************)
(* Specification of a run: the notebook of a plan and an optional paper is *)
(* built and handed to a kernel, which executes its cells in order         *)
(***************************************************************************)
\* no paper, or a paper with a staged upload
RunPapers == {p \in Papers : p.none \/ HasUpload(p)}

InitRun ==
    /\ plan \in Plans
    /\ paper \in RunPapers
    /\ plan_id = "plan-A"
    /\ factory_out = FactoryIdle
    /\ nb_bytes = NotebookBytesIdle
    /\ vresult = ValidationIdle
    /\ req_out = RequirementsIdle
    /\ req_prev = RequirementsIdle
    /\ nb_out = NotebookIdle
    /\ nb_prev = NotebookIdle
    /\ run = RunIdle
    /\ conc = ConcIdle
    /\ ServicesIdle

\* build_notebook_bytes returns the notebook, and a kernel is started on it
Materialize ==
    /\ ~nb_out.called
    /\ \E cell_ids \in CellIdDraws :
          nb_out' = [called |-> TRUE, plan |-> plan, plan_id |-> plan_id, paper |-> paper]
                        @@ build_notebook_bytes(plan, plan_id, paper, cell_ids)
    /\ \E env \in Environments(paper) : run' = KernelStart(env)
    /\ UNCHANGED <<plan, paper, plan_id, factory_out, nb_bytes, vresult, req_out, req_prev,
                   nb_prev, conc,
                   tabular, corpus, registry, relay, gateway, story>>

\* the kernel executes the statement it is at
RunStep ==
    /\ run.started
    /\ run.status = "running"
    /\ \E next \in exec(CurrentStep(run, plan, plan_id, paper), run) :
          run' = Advance(next, plan, plan_id, paper)
    /\ UNCHANGED <<plan, paper, plan_id, factory_out, nb_bytes, vresult, req_out, req_prev,
                   nb_out, nb_prev, conc,
                   tabular, corpus, registry, relay, gateway, story>>

NextRun == Materialize \/ RunStep

SpecRun == InitRun /\ [][NextRun]_vars

(***************************************************************************)
(* Claims on the generated code                                            *)
(***************************************************************************)
\* the generator whose body is the dataset cell of the notebook under execution
RunDatasetGen == get_dataset_generator(plan, paper).gen

SetupCellSteps == notebook_steps(plan, plan_id, paper)[2]
DatasetCellSteps == notebook_steps(plan, plan_id, paper)[4]

\* the operations that draw from a random generator
SeededOps == {"make_classification", "subsample", "train_test_split"}

\* C12: the setup cell assigns SEED the text of the plan's config.seed, and
\* SEED is the only seed: no statement of a dataset cell binds SEED, every
\* statement of a dataset cell that draws random numbers (data construction,
\* subsampling, train/test split) passes the name SEED and none passes
\* anything else, so every seed an executing notebook uses is config.seed;
\* the synthetic dataset cell constructs 512 samples.
C12_SingleSeed ==
    LET setup == SetupCellSteps
        dataset == DatasetCellSteps
        variant == RunDatasetGen.variant
    IN  /\ \E k \in 1..Len(setup) :
              /\ setup[k].op = "assign_seed"
              /\ setup[k].opt = str(plan.config.seed)
              /\ \A j \in 1..Len(setup) : "SEED" \in setup[j].defines => j = k
        /\ \A k \in 1..Len(dataset) :
              /\ "SEED" \notin dataset[k].defines
              /\ dataset[k].op \in SeededOps => dataset[k].seed = "SEED"
              /\ dataset[k].seed \in {PyNone, "SEED"}
        /\ variant = "SyntheticDatasetGenerator" =>
              \E k \in 1..Len(dataset) :
                  dataset[k].op = "make_classification" /\ dataset[k].n = 512
        /\ nb_out.called =>
              \E k \in 1..Len(nb_out.bytes.cells[2].source) :
                  nb_out.bytes.cells[2].source[k] = "SEED = " \o ToString(plan.config.seed)
        /\ run.started =>
              /\ run.seeds \subseteq {plan.config.seed}
              /\ run.cell > 2 => run.SEED = plan.config.seed
              /\ (run.status = "done" /\ variant = "SyntheticDatasetGenerator") =>
                    Len(run.X) = 512

\* the fallback notebook of the seed 7 has run to its end: it constructed
\* 512 samples and split them, and 7 was the seed of both
C12_Witness ==
    /\ run.started
    /\ run.status = "done"
    /\ plan.dataset.name = "totally_unknown_xyz"
    /\ plan.config.seed = 7
    /\ run.seeds = {7}
    /\ run.split.called
    /\ run.split.seed = 7
    /\ Len(run.X) = 512

OfflineConfigured == lower(getenv(run.env.OFFLINE_MODE, "false")) = "true"
MaxConfigured == int(getenv(run.env.MAX_TRAIN_SAMPLES, "5000"))

\* C16 as claimed: when the paper record claims an upload and the file is not
\* on disk, build_notebook_bytes returns no notebook.
C16_FailsAtGeneration ==
    (run.started /\ UploadStaged /\ ~run.env.file_on_disk) => ~nb_out.called

\* C17 as claimed: in the notebooks of the vision and the text corpus
\* generator, with OFFLINE_MODE true no download is attempted and the cell
\* fails when the data is not in the cache; with OFFLINE_MODE false a download
\* is attempted only when the data is not in the cache.
C17_OfflineObeyed ==
    (run.started /\ RunDatasetGen.variant \in {"TorchvisionDatasetGenerator",
                                               "HuggingFaceDatasetGenerator"}) =>
        /\ OfflineConfigured => run.downloads = 0
        /\ (OfflineConfigured /\ run.cache = "absent") => run.status = "failed"
        /\ run.downloads <= 1

\* the data the notebook hands to training
TrainingData == IF run.split.called THEN run.split.of ELSE run.X_train

\* C18 as claimed: when a notebook has run to its end, the data handed to
\* training holds exactly the configured maximum of samples if more than that
\* were loaded, and all loaded samples otherwise.
C18_CapApplied ==
    (run.started /\ run.status = "done") =>
        IF run.loaded > MaxConfigured
        THEN Len(TrainingData) = MaxConfigured
        ELSE Len(TrainingData) = run.loaded

\* the arrays the subsampling of the notebook under execution works on
CappedFeatures ==
    IF RunDatasetGen.variant = "TorchvisionDatasetGenerator" THEN run.X_train ELSE run.X
CappedLabels ==
    IF RunDatasetGen.variant = "TorchvisionDatasetGenerator" THEN run.y_train ELSE run.y

\* C19: when a notebook subsamples, the indices are those that the plan's
\* seed, the number of loaded samples and the configured maximum determine;
\* they are pairwise distinct, and features and labels are both taken at
\* these indices, so every kept sample keeps its own label.
C19_SubsampleReproducible ==
    (run.started /\ run.capped) =>
        /\ run.indices = choice(plan.config.seed, run.loaded, MaxConfigured)
        /\ Len(run.indices) = MaxConfigured
        /\ \A i, j \in 1..Len(run.indices) : i # j => run.indices[i] # run.indices[j]
        /\ CappedFeatures = Take(Samples(run.loaded), run.indices)
        /\ CappedLabels = CappedFeatures

\* a text corpus notebook of the seed 42 loaded 4 samples under a maximum of
\* 2 and kept the samples 4 and 1
C19_Witness ==
    /\ run.started
    /\ run.capped
    /\ RunDatasetGen.variant = "HuggingFaceDatasetGenerator"
    /\ plan.config.seed = 42
    /\ run.loaded = 4
    /\ run.MAX_SAMPLES = 2
    /\ run.indices = <<4, 1>>
    /\ run.X = <<4, 1>>
    /\ run.y = <<4, 1>>

\* C20 as claimed: when a notebook has run to its end, X_train, X_test,
\* y_train, y_test come from train_test_split with test fraction 0.2 and the
\* seed SEED applied to X and y, so train and test are disjoint and together
\* are exactly X, every sample with its own label.
C20_SeededSplit ==
    (run.started /\ run.status = "done") =>
        /\ run.split.called
        /\ run.split.test_percent = 20
        /\ run.split.seed = plan.config.seed
        /\ run.split.of = run.X
        /\ set(run.X_train) \cap set(run.X_test) = {}
        /\ set(run.X_train) \cup set(run.X_test) = set(run.X)
        /\ run.y_train = run.X_train
        /\ run.y_test = run.X_test

(***************************************************************************)
(* Specification of a materialization: for a plan and an optional paper    *)
(* the generator is selected, the requirements and the notebook are built  *)
(* and the built notebook is validated                                     *)
(***************************************************************************)
ValidateBuilt ==
    /\ nb_out.called
    /\ ~vresult.called
    /\ nb_bytes' = serialized(nb_out.bytes)
    /\ vresult' = validate(serialized(nb_out.bytes))
    /\ UNCHANGED <<plan, paper, plan_id, factory_out, req_out, req_prev, nb_out, nb_prev,
                   run, conc,
                   tabular, corpus, registry, relay, gateway, story>>

NextPipeline == GetDatasetGenerator \/ BuildRequirements \/ BuildNotebook \/ ValidateBuilt

SpecPipeline == InitBuild /\ [][NextPipeline]_vars

IrisPlan ==
    [dataset |-> [name |-> "iris", split |-> PyNone],
     model |-> [name |-> "logistic"], config |-> [seed |-> 42]]

Threads == {1, 2}

ModuleGlobals ==
    [DEFAULT_REQUIREMENTS |-> DEFAULT_REQUIREMENTS,
     DATASET_REGISTRY |-> DATASET_REGISTRY,
     SKLEARN_PARAM_RULES |-> SKLEARN_PARAM_RULES]

\* requirements = DEFAULT_REQUIREMENTS: the name bound to the global list itself
new_set_aliasing(list) == [shared |-> TRUE, items |-> {}]

\* requirements = set(DEFAULT_REQUIREMENTS): a new set object with the list's strings
new_set(list) == [shared |-> FALSE, items |-> set(list)]

\* the strings of a requirements object, given the globals
items_of(object, globals) ==
    IF object.shared THEN set(globals.DEFAULT_REQUIREMENTS) ELSE object.items

\* the strings of a list that a set does not hold yet, in the list's order
RECURSIVE missing_from(_, _)
missing_from(list, S) ==
    IF list = <<>> THEN <<>>
    ELSE IF Head(list) \in S THEN missing_from(Tail(list), S)
    ELSE <<Head(list)>> \o missing_from(Tail(list), S \cup {Head(list)})

ThreadStart(pl, p, id, cell_ids) ==
    [plan |-> pl, paper |-> p, plan_id |-> id, cell_ids |-> cell_ids, pc |-> "select",
     gen |-> FactoryIdle,
     requirements |-> [shared |-> FALSE, items |-> {}],
     req |-> [requirements_text |-> <<>>, env_hash |-> sha256_hexdigest(<<>>)],
     nb |-> [bytes |-> NotebookBytesIdle, metadata |-> notebook_metadata],
     vres |-> ValidationIdle]

\* the second request: another plan, no paper
OtherPlans(pl) == {other \in Plans : other.config.seed = 42 /\ other # pl}

InitConcurrent ==
    /\ plan = IdlePlan
    /\ paper = PaperNone
    /\ plan_id = "plan-1"
    /\ factory_out = FactoryIdle
    /\ nb_bytes = NotebookBytesIdle
    /\ vresult = ValidationIdle
    /\ req_out = RequirementsIdle
    /\ req_prev = RequirementsIdle
    /\ nb_out = NotebookIdle
    /\ nb_prev = NotebookIdle
    /\ run = RunIdle
    /\ ServicesIdle
    /\ \E pl \in Plans, p \in RunPapers :
          \E other \in OtherPlans(pl) :
              conc = [started |-> TRUE, globals |-> ModuleGlobals,
                      threads |-> <<ThreadStart(pl, p, "plan-A",
                                       <<"1f3a9c02", "b7e0d455", "0c9e4e1a", "5d2f8b70", "e4a61c93">>),
                                     ThreadStart(other, PaperNone, "plan-B",
                                       <<"9a0b37de", "63c1f248", "d81e05b6", "2b74a9f1", "f05c6d3e">>)>>]

ConcUnchanged ==
    UNCHANGED <<plan, paper, plan_id, factory_out, nb_bytes, vresult, req_out, req_prev,
                nb_out, nb_prev, run,
                   tabular, corpus, registry, relay, gateway, story>>

\* GeneratorFactory.get_dataset_generator(plan, paper=paper)
ThreadSelect(t) ==
    LET th == conc.threads[t]
    IN  /\ th.pc = "select"
        /\ conc' = [conc EXCEPT !.threads[t].gen = get_dataset_generator(th.plan, th.paper),
                                !.threads[t].pc = "requirements_set"]
        /\ ConcUnchanged

\* build_requirements: requirements = set(DEFAULT_REQUIREMENTS)
ThreadRequirementsSet(t) ==
    LET th == conc.threads[t]
    IN  /\ th.pc = "requirements_set"
        /\ conc' = [conc EXCEPT
                      !.threads[t].requirements = new_set(conc.globals.DEFAULT_REQUIREMENTS),
                      !.threads[t].pc = "requirements_update"]
        /\ ConcUnchanged

\* build_requirements: requirements.update(dataset_reqs); requirements.update(model_reqs)
ThreadRequirementsUpdate(t) ==
    LET th == conc.threads[t]
        added == generate_requirements(requirements_dataset_gen(th.plan), th.plan)
                 \o generate_requirements(get_model_generator(th.plan), th.plan)
    IN  /\ th.pc = "requirements_update"
        /\ conc' =
              IF th.requirements.shared
              THEN [conc EXCEPT
                      !.globals.DEFAULT_REQUIREMENTS =
                          @ \o missing_from(added, set(conc.globals.DEFAULT_REQUIREMENTS)),
                      !.threads[t].pc = "requirements_return"]
              ELSE [conc EXCEPT
                      !.threads[t].requirements.items = @ \cup set(added),
                      !.threads[t].pc = "requirements_return"]
        /\ ConcUnchanged

\* build_requirements: sorted, joined, hashed and returned
ThreadRequirementsReturn(t) ==
    LET th == conc.threads[t]
        sorted_lines == sorted(items_of(th.requirements, conc.globals))
    IN  /\ th.pc = "requirements_return"
        /\ conc' = [conc EXCEPT
                      !.threads[t].req =
                          [requirements_text |-> join("\n", sorted_lines) \o <<"\n">>,
                           env_hash |-> sha256_hexdigest(join("\n", sorted_lines))],
                      !.threads[t].pc = "notebook"]
        /\ ConcUnchanged

\* build_notebook_bytes(plan, plan_id, paper)
ThreadBuildNotebook(t) ==
    LET th == conc.threads[t]
    IN  /\ th.pc = "notebook"
        /\ conc' = [conc EXCEPT
                      !.threads[t].nb =
                          build_notebook_bytes(th.plan, th.plan_id, th.paper, th.cell_ids),
                      !.threads[t].pc = "validate"]
        /\ ConcUnchanged

\* NotebookValidator().validate(notebook_bytes)
ThreadValidate(t) ==
    LET th == conc.threads[t]
    IN  /\ th.pc = "validate"
        /\ conc' = [conc EXCEPT
                      !.threads[t].vres = validate(serialized(th.nb.bytes)),
                      !.threads[t].pc = "done"]
        /\ ConcUnchanged

NextConcurrent ==
    \E t \in Threads :
        \/ ThreadSelect(t)
        \/ ThreadRequirementsSet(t)
        \/ ThreadRequirementsUpdate(t)
        \/ ThreadRequirementsReturn(t)
        \/ ThreadBuildNotebook(t)
        \/ ThreadValidate(t)

SpecConcurrent == InitConcurrent /\ [][NextConcurrent]_vars

\* the steps a thread has behind it when it is at pc
StepsBefore(pc) ==
    CASE pc = "select" -> {}
      [] pc = "requirements_set" -> {"select"}
      [] pc = "requirements_update" -> {"select"}
      [] pc = "requirements_return" -> {"select"}
      [] pc = "notebook" -> {"select", "requirements"}
      [] pc = "validate" -> {"select", "requirements", "notebook"}
      [] pc = "done" -> {"select", "requirements", "notebook", "validate"}

\* what every thread holds is what the same calls return when run alone
SameAsAlone ==
    conc.started =>
        \A t \in Threads :
            LET th == conc.threads[t]
                behind == StepsBefore(th.pc)
            IN  /\ "select" \in behind => th.gen = get_dataset_generator(th.plan, th.paper)
                /\ "requirements" \in behind => th.req = build_requirements(th.plan)
                /\ "notebook" \in behind =>
                      th.nb = build_notebook_bytes(th.plan, th.plan_id, th.paper, th.cell_ids)
                /\ "validate" \in behind =>
                      th.vres = validate(serialized(
                          build_notebook_bytes(th.plan, th.plan_id, th.paper, th.cell_ids).bytes))

\* no step writes a plan, a paper record or a module global
NoSharedWrite ==
    (conc.started /\ conc'.started) =>
        /\ conc'.globals = conc.globals
        /\ conc.globals = ModuleGlobals
        /\ \A t \in Threads :
              /\ conc'.threads[t].plan = conc.threads[t].plan
              /\ conc'.threads[t].paper = conc.threads[t].paper

ColumnLabels == {"Win", "label", "team", "score"}

\* a string column at the threshold, a string column above it, a numeric column above it
ColumnKinds == {<<"object", 50>>, <<"object", 51>>, <<"int64", 51>>}

\* largest number of columns of a sheet
MaxColumns == 3

\* the sheets read_excel may return: up to MaxColumns columns of different
\* names, two rows, the second of which may hold a missing value
Sheets ==
    {DataFrame(columns, <<1, 2>>, missing) :
        columns \in {cs \in UNION {[1..n -> {Column(name, kind) : name \in ColumnLabels, kind \in ColumnKinds}]
                                     : n \in 0..MaxColumns} :
                        \A i, j \in 1..Len(cs) : cs[i].name = cs[j].name => i = j},
        missing \in {{}, {2}}}

SubPaths == {"uploaded", "local"}

InitTabular ==
    /\ plan = IdlePlan
    /\ paper = PaperNone
    /\ plan_id = "plan-1"
    /\ factory_out = FactoryIdle
    /\ nb_bytes = NotebookBytesIdle
    /\ vresult = ValidationIdle
    /\ req_out = RequirementsIdle
    /\ req_prev = RequirementsIdle
    /\ nb_out = NotebookIdle
    /\ nb_prev = NotebookIdle
    /\ run = RunIdle
    /\ conc = ConcIdle
    /\ corpus = Idle
    /\ registry = Idle
    /\ relay = Idle
    /\ gateway = Idle
    /\ story = Idle
    /\ \E sheet \in Sheets, path \in SubPaths :
          tabular = [started |-> TRUE, path |-> path, sheet |-> sheet, pc |-> "read_excel",
                     df |-> DataFrame(<<>>, <<>>, {}), events |-> <<>>, error |-> "",
                     target_column |-> PyNone, y |-> <<>>, X_df |-> <<>>,
                     X |-> DataFrame(<<>>, <<>>, {})]

TabularUnchanged ==
    UNCHANGED <<plan, paper, plan_id, factory_out, nb_bytes, vresult, req_out, req_prev,
                nb_out, nb_prev, run, conc, corpus, registry, relay, gateway, story>>

\* df = pd.read_excel(...); log_event("metric_update", {"metric": "dataset_rows", ...})
ReadExcel ==
    /\ tabular.started
    /\ tabular.pc = "read_excel"
    /\ tabular' = [tabular EXCEPT
                     !.df = tabular.sheet,
                     !.events = <<Event("metric_update", <<"dataset_rows", Len(tabular.sheet.rows)>>)>>,
                     !.pc = IF tabular.path = "uploaded" THEN "clean_data" ELSE "detect_target_column"]
    /\ TabularUnchanged

\* df_clean = df.dropna(); ...; df = df_clean (uploaded sub-path only)
CleanData ==
    /\ tabular.started
    /\ tabular.pc = "clean_data"
    /\ LET cleaned == clean_data(tabular.df)
       IN  tabular' = [tabular EXCEPT !.df = cleaned.df,
                                      !.events = @ \o cleaned.events,
                                      !.pc = "detect_target_column"]
    /\ TabularUnchanged

\* the target detection loop and its fallback
DetectTargetColumn ==
    /\ tabular.started
    /\ tabular.pc = "detect_target_column"
    /\ LET detected == detect_target_column(tabular.df)
       IN  tabular' = [tabular EXCEPT !.target_column = detected.target_column,
                                      !.events = @ \o detected.events,
                                      !.error = detected.error,
                                      !.pc = IF detected.error # "" THEN "failed"
                                             ELSE "separate_target"]
    /\ TabularUnchanged

\* y = df[target_column].values; X_df = df.drop(columns=[target_column])
SeparateTarget ==
    /\ tabular.started
    /\ tabular.pc = "separate_target"
    /\ tabular' = [tabular EXCEPT !.y = tabular.df.rows,
                                  !.X_df = drop(tabular.df.columns, tabular.target_column),
                                  !.pc = "drop_high_cardinality"]
    /\ TabularUnchanged

\* the loop dropping high-cardinality string columns
DropHighCardinality ==
    /\ tabular.started
    /\ tabular.pc = "drop_high_cardinality"
    /\ LET kept == drop_high_cardinality(tabular.X_df)
       IN  tabular' = [tabular EXCEPT !.X_df = kept.columns,
                                      !.events = @ \o kept.events,
                                      !.pc = "encode_categorical"]
    /\ TabularUnchanged

\* the loop encoding categorical features; X = X_df.values
EncodeCategorical ==
    /\ tabular.started
    /\ tabular.pc = "encode_categorical"
    /\ tabular' = [tabular EXCEPT
                     !.X_df = encode_categorical(tabular.X_df),
                     !.X = DataFrame(encode_categorical(tabular.X_df), tabular.df.rows,
                                     tabular.df.missing),
                     !.pc = "done"]
    /\ TabularUnchanged

NextTabular ==
    \/ ReadExcel
    \/ CleanData
    \/ DetectTargetColumn
    \/ SeparateTarget
    \/ DropHighCardinality
    \/ EncodeCategorical

SpecTabular == InitTabular /\ [][NextTabular]_vars

\* the events of the preprocessing: all but the row count logged at the load
PreprocessingEvents == Tail(tabular.events)

\* C22: the uploaded and the local sub-path do the same to the same table:
\* rows with missing values are dropped before the target detection and the
\* drop is logged, so the cell ends with the X, y and preprocessing events
\* the other sub-path gets from that table.
C22_SamePreprocessing ==
    (tabular.started /\ tabular.pc = "done") =>
        LET other == tabular_preprocessing(tabular.path # "uploaded", tabular.sheet)
        IN  /\ tabular.X = other.X
            /\ tabular.y = other.y
            /\ PreprocessingEvents = other.events
            /\ \A row \in tabular.sheet.missing :
                  \A k \in 1..Len(tabular.X.rows) : tabular.X.rows[k] # row

IsWarning(e) == e.event = "warning"

\* C23: the target is the first name of the candidate list that is a column;
\* without one it is the last column and one warning is logged; a warning is
\* logged exactly when the fallback was taken, no error is raised and the
\* target is not among the features.
C23_TargetDetection ==
    (tabular.started /\ tabular.pc \notin {"read_excel", "clean_data", "detect_target_column"}) =>
        LET names == ColumnNames(tabular.df)
            present == {k \in 1..Len(TargetCandidates) :
                           \E j \in 1..Len(names) : names[j] = TargetCandidates[k]}
            warnings == Len(SelectSeq(tabular.events, IsWarning))
        IN  /\ tabular.error = ""
            /\ tabular.pc # "failed"
            /\ present # {} =>
                  /\ tabular.target_column = TargetCandidates[CHOOSE k \in present :
                                                                 \A j \in present : k <= j]
                  /\ warnings = 0
            /\ present = {} =>
                  /\ names # <<>>
                  /\ tabular.target_column = names[Len(names)]
                  /\ warnings = 1
            /\ tabular.pc \in {"drop_high_cardinality", "encode_categorical", "done"} =>
                  \A k \in 1..Len(tabular.X_df) : tabular.X_df[k].name # tabular.target_column

IsColumnDrop(e) == e.event = "info" /\ e.payload[1] = "Dropped high-cardinality column: "

\* C24: every feature column with more distinct values than the threshold
\* is dropped, with one info event for it, every other non-numeric column is
\* label-encoded, and the final matrix has only numeric columns, none of
\* them above the threshold.
C24_CardinalityAndEncoding ==
    (tabular.started /\ tabular.pc = "done") =>
        LET features == drop(tabular.df.columns, tabular.target_column)
            final == tabular.X.columns
        IN  /\ \A k \in 1..Len(features) :
                  features[k].nunique > CardinalityThreshold =>
                      /\ \A j \in 1..Len(final) : final[j].name # features[k].name
                      /\ Len(SelectSeq(tabular.events,
                                LAMBDA e : IsColumnDrop(e) /\ e.payload[2] = features[k].name)) = 1
            /\ \A k \in 1..Len(features) :
                  features[k].nunique <= CardinalityThreshold =>
                      \E j \in 1..Len(final) :
                          /\ final[j].name = features[k].name
                          /\ final[j].encoded = (features[k].dtype = "object")
            /\ \A j \in 1..Len(final) :
                  /\ final[j].dtype = "int64"
                  /\ final[j].nunique <= CardinalityThreshold

(***************************************************************************)
(* Specification of the field detection of the text-corpus cell: the       *)
(* statements between train_data = dataset[split_name] and the extraction  *)
(* of the labels execute on the ordered field names of a corpus.           *)
(***************************************************************************)
\* the list the for loop of the text field detection walks
TextFieldCandidates == <<"sentence", "text", "content", "review">>

\* "label" if "label" in train_data.features else list(train_data.features.keys())[1]
detect_label_field(features) ==
    IF \E k \in 1..Len(features) : features[k] = "label"
    THEN [label_field |-> "label", error |-> ""]
    ELSE IF Len(features) < 2
    THEN [label_field |-> PyNone, error |-> "IndexError"]
    ELSE [label_field |-> features[2], error |-> ""]

FieldNames == {"sentence", "text", "review", "label", "idx", "stars"}

\* largest number of fields of a corpus
MaxFields == 3

\* train_data.features.keys(): up to MaxFields different names in their order
FeatureLists ==
    {fs \in UNION {[1..n -> FieldNames] : n \in 0..MaxFields} :
        \A i, j \in 1..Len(fs) : fs[i] = fs[j] => i = j}

InitCorpus ==
    /\ plan = IdlePlan
    /\ paper = PaperNone
    /\ plan_id = "plan-1"
    /\ factory_out = FactoryIdle
    /\ nb_bytes = NotebookBytesIdle
    /\ vresult = ValidationIdle
    /\ req_out = RequirementsIdle
    /\ req_prev = RequirementsIdle
    /\ nb_out = NotebookIdle
    /\ nb_prev = NotebookIdle
    /\ run = RunIdle
    /\ conc = ConcIdle
    /\ tabular = Idle
    /\ registry = Idle
    /\ relay = Idle
    /\ gateway = Idle
    /\ story = Idle
    /\ \E features \in FeatureLists :
          corpus = [started |-> TRUE, features |-> features, pc |-> "detect_text_field",
                    text_field |-> PyNone, label_field |-> PyNone,
                    texts |-> PyNone, labels |-> PyNone, error |-> ""]

CorpusUnchanged ==
    UNCHANGED <<plan, paper, plan_id, factory_out, nb_bytes, vresult, req_out, req_prev,
                nb_out, nb_prev, run, conc, tabular, registry, relay, gateway, story>>

\* the text field detection loop and the raise that follows it
DetectTextField ==
    /\ corpus.started
    /\ corpus.pc = "detect_text_field"
    /\ LET found == first_present(TextFieldCandidates, corpus.features)
       IN  corpus' = IF found = PyNone
                     THEN [corpus EXCEPT !.error = "ValueError", !.pc = "failed"]
                     ELSE [corpus EXCEPT !.text_field = found, !.pc = "extract_texts"]
    /\ CorpusUnchanged

\* texts = [row[text_field] for row in train_data]
ExtractTexts ==
    /\ corpus.started
    /\ corpus.pc = "extract_texts"
    /\ corpus' = [corpus EXCEPT !.texts = corpus.text_field, !.pc = "detect_label_field"]
    /\ CorpusUnchanged

\* label_field = ...
DetectLabelField ==
    /\ corpus.started
    /\ corpus.pc = "detect_label_field"
    /\ LET detected == detect_label_field(corpus.features)
       IN  corpus' = IF detected.error # ""
                     THEN [corpus EXCEPT !.error = detected.error, !.pc = "failed"]
                     ELSE [corpus EXCEPT !.label_field = detected.label_field,
                                         !.pc = "extract_labels"]
    /\ CorpusUnchanged

\* labels = [row[label_field] for row in train_data]
ExtractLabels ==
    /\ corpus.started
    /\ corpus.pc = "extract_labels"
    /\ corpus' = [corpus EXCEPT !.labels = corpus.label_field, !.pc = "done"]
    /\ CorpusUnchanged

NextCorpus == DetectTextField \/ ExtractTexts \/ DetectLabelField \/ ExtractLabels

SpecCorpus == InitCorpus /\ [][NextCorpus]_vars

\* C27: the text field is the first of [sentence, text, content, review]
\* among the fields, and whenever the cell does not raise, the label field is
\* a field of the corpus other than the text field: the labels are never the
\* texts.
C27_LabelNotText ==
    (corpus.started /\ corpus.pc = "done") =>
        /\ \E k \in 1..Len(TextFieldCandidates) :
              /\ corpus.text_field = TextFieldCandidates[k]
              /\ \E i \in 1..Len(corpus.features) : corpus.features[i] = corpus.text_field
              /\ \A j \in 1..(k - 1) :
                    \A i \in 1..Len(corpus.features) : corpus.features[i] # TextFieldCandidates[j]
        /\ \E i \in 1..Len(corpus.features) : corpus.features[i] = corpus.label_field
        /\ corpus.label_field # corpus.text_field
        /\ corpus.labels # corpus.texts

(***************************************************************************)
(* Specification of dataset-name normalization and lookup on names spelled *)
(* out character by character.                                             *)
(***************************************************************************)
\* str.lower() on one character
lower_character(c) ==
    CASE c = "A" -> "a"
      [] c = "G" -> "g"
      [] c = "N" -> "n"
      [] c = "S" -> "s"
      [] c = "T" -> "t"
      [] OTHER -> c

\* letters and digits; everything else is punctuation, a separator or whitespace
IsAlphanumeric(c) == c \in {"a", "e", "g", "n", "s", "t", "w", "2"}

\* normalize(name) -> key: lower-cases, strips punctuation and separators,
\* and leaves no whitespace
normalize(name) ==
    SelectSeq([k \in 1..Len(name) |-> lower_character(name[k])], IsAlphanumeric)

\* the spelling of the registry keys the names below can reach
KeySpelling ==
    [key \in {"agnews", "sst2"} |->
        IF key = "agnews" THEN <<"a", "g", "n", "e", "w", "s">> ELSE <<"s", "s", "t", "2">>]

\* lookup(name) -> DatasetMetadata | not-found: the entry under the normalized key
lookup(name) ==
    LET keys == {key \in DOMAIN KeySpelling : KeySpelling[key] = normalize(name)}
    IN  IF keys = {} THEN MetaNone ELSE DATASET_REGISTRY[CHOOSE key \in keys : TRUE]

\* "AG News", "agnews", "ag_news", "AG's News"
AGNewsNames ==
    {<<"A", "G", " ", "N", "e", "w", "s">>,
     <<"a", "g", "n", "e", "w", "s">>,
     <<"a", "g", "_", "n", "e", "w", "s">>,
     <<"A", "G", "'", "s", " ", "N", "e", "w", "s">>}

\* longest name among the names tried besides the named ones
MaxNameLen == 3

NameCharacters == {"A", "g", "S", "s", "2", " ", "_", "-", "'"}

\* the names handed to normalize and lookup
NamesTried ==
    AGNewsNames
    \cup {<<"S", "S", "T", "-", "2">>, <<"s", "s", "t", "2">>}
    \cup UNION {[1..n -> NameCharacters] : n \in 0..MaxNameLen}

InitRegistry ==
    /\ plan = IdlePlan
    /\ paper = PaperNone
    /\ plan_id = "plan-1"
    /\ factory_out = FactoryIdle
    /\ nb_bytes = NotebookBytesIdle
    /\ vresult = ValidationIdle
    /\ req_out = RequirementsIdle
    /\ req_prev = RequirementsIdle
    /\ nb_out = NotebookIdle
    /\ nb_prev = NotebookIdle
    /\ run = RunIdle
    /\ conc = ConcIdle
    /\ tabular = Idle
    /\ corpus = Idle
    /\ relay = Idle
    /\ gateway = Idle
    /\ story = Idle
    /\ \E name \in NamesTried :
          registry = [started |-> TRUE, name |-> name, pc |-> "normalize",
                      key |-> <<>>, again |-> <<>>, found |-> MetaNone, raised |-> FALSE]

RegistryUnchanged ==
    UNCHANGED <<plan, paper, plan_id, factory_out, nb_bytes, vresult, req_out, req_prev,
                nb_out, nb_prev, run, conc, tabular, corpus, relay, gateway, story>>

\* normalized = normalize_dataset_name(name)
Normalize ==
    /\ registry.started
    /\ registry.pc = "normalize"
    /\ registry' = [registry EXCEPT !.key = normalize(registry.name), !.pc = "normalize_again"]
    /\ RegistryUnchanged

\* normalize_dataset_name(normalized)
NormalizeAgain ==
    /\ registry.started
    /\ registry.pc = "normalize_again"
    /\ registry' = [registry EXCEPT !.again = normalize(registry.key), !.pc = "lookup"]
    /\ RegistryUnchanged

\* result = lookup_dataset(name)
Lookup ==
    /\ registry.started
    /\ registry.pc = "lookup"
    /\ registry' = [registry EXCEPT !.found = lookup(registry.name), !.pc = "done"]
    /\ RegistryUnchanged

NextRegistry == Normalize \/ NormalizeAgain \/ Lookup

SpecRegistry == InitRegistry /\ [][NextRegistry]_vars

ObservedSheets ==
    {StandardSheet,
     <<Column("team", <<"object", 51>>), Column("score", <<"int64", 51>>)>>,
     <<Column("team", <<"object", 51>>), Column("label", <<"int64", 2>>),
       Column("score", <<"int64", 51>>)>>}

TorchInstallations == {"absent", "cpu", "cuda"}

ObservedEnvironments(p) ==
    [OFFLINE_MODE : {PyNone},
     MAX_TRAIN_SAMPLES : {PyNone, "2"},
     file_on_disk : {TRUE},
     stale : BOOLEAN,
     torch : TorchInstallations,
     sheet : IF get_dataset_generator(plan, p).gen.variant = "ExcelDatasetGenerator"
             THEN ObservedSheets ELSE {StandardSheet}]

InitObserved ==
    /\ plan \in {pl \in Plans : pl.config.seed = 42}
    /\ paper \in RunPapers
    /\ plan_id = "plan-A"
    /\ factory_out = FactoryIdle
    /\ nb_bytes = NotebookBytesIdle
    /\ vresult = ValidationIdle
    /\ req_out = RequirementsIdle
    /\ req_prev = RequirementsIdle
    /\ nb_out = NotebookIdle
    /\ nb_prev = NotebookIdle
    /\ run = RunIdle
    /\ conc = ConcIdle
    /\ ServicesIdle

\* a kernel is started on the notebook in some working directory
StartKernel ==
    /\ ~run.started
    /\ \E env \in ObservedEnvironments(paper) : run' = KernelStart(env)
    /\ UNCHANGED <<plan, paper, plan_id, factory_out, nb_bytes, vresult, req_out, req_prev,
                   nb_out, nb_prev, conc, tabular, corpus, registry, relay, gateway, story>>

NextObserved == StartKernel \/ RunStep

SpecObserved == InitObserved /\ [][NextObserved]_vars

\* the sample count the dataset cell ends with
FinalSampleCount ==
    IF RunDatasetGen.variant = "TorchvisionDatasetGenerator"
    THEN Len(run.X_train) ELSE Len(run.X)

GpuError == "RuntimeError: E_GPU_REQUESTED"

EventsInOrder ==
    run.started =>
        LET ev == run.events
            own == {k \in 1..Len(ev) : ev[k].cell # 0}
            dataset == {k \in 1..Len(ev) : ev[k].cell = 4}
        IN  /\ (own # {} \/ run.cell > 2 \/ run.status = "done") => own = 1..Len(ev)
            /\ own # {} =>
                  ev[CHOOSE k \in own : \A j \in own : k <= j]
                      = Line(2, "stage_update", "seed_check", "", plan.config.seed)
            /\ \A k \in own : \A j \in own : k <= j => ev[k].cell <= ev[j].cell
            /\ \A k \in own : ev[k].cell \in {2, 4, 5}
            /\ \A k \in own : ev[k].cell = 2 => \A j \in own : ev[j].cell = 2 => j = k
            /\ dataset # {} =>
                  ev[CHOOSE k \in dataset : \A j \in dataset : k <= j]
                      = Line(4, "stage_update", "dataset_load", plan.dataset.name, 0)
            /\ (run.cell = 5 \/ run.status = "done") =>
                  \E m \in dataset :
                      /\ ev[m] = Line(4, "metric_update", "dataset_samples", "", FinalSampleCount)
                      /\ \A k \in dataset : ev[k].event \in {"info", "warning"} => k < m

\* a statement leaves the file as it is, appends one line to it, or removes it
OneLineAppended ==
    (run.started /\ run'.started) =>
        \/ run'.events = run.events
        \/ run'.events = <<>>
        \/ /\ Len(run'.events) = Len(run.events) + 1
           /\ SubSeq(run'.events, 1, Len(run.events)) = run.events

\* C21: the events file holds only events of the execution under way: files
\* of an earlier execution are gone before the first write and every
\* log_event appends one line; the first event is the seed_check
\* stage_update of the setup cell, the first event of the dataset cell is the
\* stage_update naming the plan's dataset, and once the dataset cell has
\* completed, a metric_update with the final sample count stands after every
\* info or warning event of that cell.
C21_EventOrder == []EventsInOrder /\ [][OneLineAppended]_vars

\* the notebook of an upload ran to its end where older files lay: rows were
\* dropped, the target fell back to the last column, a column was dropped
\* and the rows were subsampled, each with its event, before the sample count
C21_Witness ==
    /\ run.started
    /\ run.status = "done"
    /\ run.env.stale
    /\ RunDatasetGen.variant = "ExcelDatasetGenerator"
    /\ \A k \in 1..Len(run.events) : run.events[k].cell # 0
    /\ \E k \in 1..Len(run.events) : run.events[k].event = "warning"
    /\ \E k \in 1..Len(run.events) : run.events[k].what = "Dropped rows with missing values"
    /\ \E k \in 1..Len(run.events) : run.events[k].what = "Dropped high-cardinality column: "
    /\ \E k \in 1..Len(run.events) : run.events[k].what = "Subsampled"
    /\ run.events[Len(run.events)].cell = 5

\* C26: with torch importable and a CUDA device, seed_everything raises
\* E_GPU_REQUESTED before the seed_check event is logged: the execution
\* writes no event and never leaves the setup cell; with torch not
\* importable no GPU check is made and the execution goes on past the setup
\* cell with the Python and numpy generators seeded.
C26_GpuFailFast ==
    run.started =>
        /\ run.env.torch = "cuda" =>
              /\ run.cell = 2
              /\ run.status # "done"
              /\ \A k \in 1..Len(run.events) : run.events[k].cell = 0
              /\ run.status = "failed" =>
                    /\ run.error = GpuError
                    /\ run.events = <<>>
                    /\ run.metrics = "absent"
              /\ run.status = "running" => run.pc <= 9
        /\ run.env.torch = "absent" =>
              /\ ~run.TORCH_AVAILABLE
              /\ run.error # GpuError
              /\ "torch" \notin run.seeded
              /\ run.status = "failed" => run.cell > 2
              /\ (run.cell > 2 \/ run.status = "done") =>
                    /\ {"random", "numpy"} \subseteq run.seeded
                    /\ plan.config.seed \in run.seeds
                    /\ Len(run.events) >= 1

\* the setup cell has failed on a CUDA device where older files lay
C26_Witness ==
    /\ run.started
    /\ run.env.torch = "cuda"
    /\ run.env.stale
    /\ run.status = "failed"
    /\ run.error = GpuError
    /\ run.events = <<>>
    /\ {"random", "numpy"} \subseteq run.seeded

(***************************************************************************)
(* Specification of the SSE relays of the gateway (extract_claims and      *)
(* stream_run_events): the lines of the backend response are read one by   *)
(* one and data lines are translated into frontend events.                 *)
(***************************************************************************)
BlankLine == [kind |-> "blank", type |-> "", json |-> FALSE, delta |-> FALSE]
EventLine(type) == [kind |-> "event", type |-> type, json |-> FALSE, delta |-> FALSE]
\* a data line: whether its text is JSON, and whether the JSON has a
\* non-empty "delta"
DataLine(json, delta) == [kind |-> "data", type |-> "", json |-> json, delta |-> delta]

BackendEventTypes == {"stage_update", "token", "progress"}

\* the lines response.aiter_lines() may give
BackendLines ==
    {BlankLine} \cup {EventLine(type) : type \in BackendEventTypes}
                \cup {DataLine(TRUE, TRUE), DataLine(TRUE, FALSE), DataLine(FALSE, FALSE)}

\* largest number of lines of a backend response
MaxLines == 4

Relays == {"extract_claims", "stream_run_events"}

\* the frontend events a relay yields for a data line under an event type
\* (none or one): the type of each and the branch that made it
translate(which, event_type, line) ==
    IF ~line.json
    THEN <<[type |-> "log", branch |-> "plain text", under |-> event_type]>>
    ELSE CASE event_type = "stage_update" ->
                <<[type |-> "progress", branch |-> "stage_update", under |-> event_type]>>
           [] event_type = "token" /\ which = "extract_claims" ->
                IF line.delta
                THEN <<[type |-> "log", branch |-> "token", under |-> event_type]>>
                ELSE <<>>
           [] event_type = "progress" /\ which = "stream_run_events" ->
                <<[type |-> "progress", branch |-> "progress", under |-> event_type]>>
           [] OTHER ->
                <<[type |-> "log", branch |-> "generic", under |-> event_type]>>

\* the events of a translation, each marked with the line it was made of
Yielded(k, events) == [j \in 1..Len(events) |-> [line |-> k] @@ events[j]]

InitRelay ==
    /\ plan = IdlePlan
    /\ paper = PaperNone
    /\ plan_id = "plan-1"
    /\ factory_out = FactoryIdle
    /\ nb_bytes = NotebookBytesIdle
    /\ vresult = ValidationIdle
    /\ req_out = RequirementsIdle
    /\ req_prev = RequirementsIdle
    /\ nb_out = NotebookIdle
    /\ nb_prev = NotebookIdle
    /\ run = RunIdle
    /\ conc = ConcIdle
    /\ tabular = Idle
    /\ corpus = Idle
    /\ registry = Idle
    /\ gateway = Idle
    /\ story = Idle
    /\ \E which \in Relays :
          \E lines \in UNION {[1..n -> BackendLines] : n \in 0..MaxLines} :
              relay = [started |-> TRUE, which |-> which, lines |-> lines, read |-> 0,
                       current_event_type |-> PyNone, yielded |-> <<>>]

RelayUnchanged ==
    UNCHANGED <<plan, paper, plan_id, factory_out, nb_bytes, vresult, req_out, req_prev,
                nb_out, nb_prev, run, conc, tabular, corpus, registry, gateway, story>>

NextLine == relay.lines[relay.read + 1]

\* if not line: continue
SkipBlankLine ==
    /\ relay.started
    /\ relay.read < Len(relay.lines)
    /\ NextLine.kind = "blank"
    /\ relay' = [relay EXCEPT !.read = @ + 1]
    /\ RelayUnchanged

\* if line.startswith("event: "): current_event_type = line[7:]; continue
ReadEventLine ==
    /\ relay.started
    /\ relay.read < Len(relay.lines)
    /\ NextLine.kind = "event"
    /\ relay' = [relay EXCEPT !.read = @ + 1, !.current_event_type = NextLine.type]
    /\ RelayUnchanged

\* if line.startswith("data: "): ... yield the translation
RelayDataLine ==
    /\ relay.started
    /\ relay.read < Len(relay.lines)
    /\ NextLine.kind = "data"
    /\ LET event_type == IF relay.current_event_type # PyNone
                         THEN relay.current_event_type ELSE "message"
       IN  relay' = [relay EXCEPT
                       !.read = @ + 1,
                       !.yielded = @ \o Yielded(relay.read + 1,
                                                translate(relay.which, event_type, NextLine))]
    /\ RelayUnchanged

NextRelay == SkipBlankLine \/ ReadEventLine \/ RelayDataLine

SpecRelay == InitRelay /\ [][NextRelay]_vars

\* the event type an SSE message declares for its data line k: that of the
\* last event: line between the blank line that ended the message before
\* and line k, "message" when there is none
DeclaredType(lines, k) ==
    LET start == IF \E j \in 1..(k - 1) : lines[j].kind = "blank"
                 THEN CHOOSE j \in 1..(k - 1) :
                        /\ lines[j].kind = "blank"
                        /\ \A i \in (j + 1)..(k - 1) : lines[i].kind # "blank"
                 ELSE 0
        declared == {j \in (start + 1)..(k - 1) : lines[j].kind = "event"}
    IN  IF declared = {} THEN "message"
        ELSE lines[CHOOSE j \in declared : \A i \in declared : i <= j].type

\* C28: in both relays every data line is translated under the event type
\* its own SSE message declares; a data line of a message without an event:
\* line is relayed as a generic log event, never under the type of an
\* earlier message; lines are relayed in their order and each gives at most
\* one frontend event.
C28_OwnEventType ==
    relay.started =>
        /\ \A k \in 1..Len(relay.yielded) :
              LET e == relay.yielded[k]
                  own == DeclaredType(relay.lines, e.line)
              IN  /\ relay.lines[e.line].kind = "data"
                  /\ e.under = own
                  /\ <<e>> = Yielded(e.line, translate(relay.which, own, relay.lines[e.line]))
                  /\ own = "message" => e.type = "log"
        /\ \A j, k \in 1..Len(relay.yielded) :
              j < k => relay.yielded[j].line < relay.yielded[k].line

(***************************************************************************)
(* Specification of generate_plan of the gateway: the claim rows of the    *)
(* paper are read, transformed, the paper stage is set and the backend     *)
(* plan endpoint is called.                                                *)
(***************************************************************************)
\* the dataset_name of a stored claim row
ClaimDatasetNames == {"SST-2", "IMDB", PyNone}

\* largest number of claim rows stored for a paper
MaxRows == 3

ClaimRows == UNION {[1..n -> [dataset_name : ClaimDatasetNames]] : n \in 0..MaxRows}

\* the answers of the backend plan endpoint
BackendStatus == {200, 500}

\* claims = [... for claim in claims_data if claim.get('dataset_name') == 'SST-2']
transform_claims(claims_data) ==
    LET kept == SelectSeq(claims_data, LAMBDA claim : claim.dataset_name = "SST-2")
    IN  [k \in 1..Len(kept) |-> [dataset |-> kept[k].dataset_name]]

InitGateway ==
    /\ plan = IdlePlan
    /\ paper = PaperNone
    /\ plan_id = "plan-1"
    /\ factory_out = FactoryIdle
    /\ nb_bytes = NotebookBytesIdle
    /\ vresult = ValidationIdle
    /\ req_out = RequirementsIdle
    /\ req_prev = RequirementsIdle
    /\ nb_out = NotebookIdle
    /\ nb_prev = NotebookIdle
    /\ run = RunIdle
    /\ conc = ConcIdle
    /\ tabular = Idle
    /\ corpus = Idle
    /\ registry = Idle
    /\ relay = Idle
    /\ story = Idle
    /\ \E rows \in ClaimRows, update_fails \in BOOLEAN, answer \in BackendStatus :
          gateway = [started |-> TRUE, rows |-> rows, update_fails |-> update_fails,
                     answer |-> answer, at |-> "select", claims_data |-> <<>>,
                     claims |-> <<>>, stage |-> "extract", posted |-> <<>>,
                     warnings |-> 0, status |-> 0]

GatewayUnchanged ==
    UNCHANGED <<plan, paper, plan_id, factory_out, nb_bytes, vresult, req_out, req_prev,
                nb_out, nb_prev, run, conc, tabular, corpus, registry, relay, story>>

\* claims_data = supabase.table("claims").select("*")...; if not claims_data: raise 400
SelectClaims ==
    /\ gateway.started
    /\ gateway.at = "select"
    /\ gateway' = IF gateway.rows = <<>>
                  THEN [gateway EXCEPT !.at = "raised", !.status = 400]
                  ELSE [gateway EXCEPT !.at = "transform", !.claims_data = gateway.rows]
    /\ GatewayUnchanged

\* the loop over claims_data
TransformClaims ==
    /\ gateway.started
    /\ gateway.at = "transform"
    /\ gateway' = [gateway EXCEPT !.at = "stage",
                                  !.claims = transform_claims(gateway.claims_data)]
    /\ GatewayUnchanged

\* supabase.table("papers").update({"stage": "plan"}); a failure is printed
UpdateStage ==
    /\ gateway.started
    /\ gateway.at = "stage"
    /\ gateway' = IF gateway.update_fails
                  THEN [gateway EXCEPT !.at = "post", !.warnings = @ + 1]
                  ELSE [gateway EXCEPT !.at = "post", !.stage = "plan"]
    /\ GatewayUnchanged

\* response = await client.post(plan_endpoint, json=payload) and the answer
PostPlan ==
    /\ gateway.started
    /\ gateway.at = "post"
    /\ gateway' = [gateway EXCEPT
                     !.posted = Append(@, [claims |-> gateway.claims, budget_minutes |-> 20]),
                     !.status = gateway.answer,
                     !.at = IF gateway.answer \in {200, 201} THEN "returned" ELSE "raised"]
    /\ GatewayUnchanged

NextGateway == SelectClaims \/ TransformClaims \/ UpdateStage \/ PostPlan

SpecGateway == InitGateway /\ [][NextGateway]_vars

\* C29: generate_plan calls the backend plan endpoint only with a non-empty
\* claims list: whatever claim rows are stored for the paper, every payload
\* sent to the backend holds at least one claim, and a request rejected
\* with 400 has neither set the paper stage to "plan" nor called the
\* backend.
C29_NonEmptyClaims ==
    gateway.started =>
        /\ \A k \in 1..Len(gateway.posted) : gateway.posted[k].claims # <<>>
        /\ (gateway.at = "raised" /\ gateway.status = 400) =>
               gateway.stage # "plan" /\ gateway.posted = <<>>

(***************************************************************************)
(* Specification of refresh_storyboard_with_results: the storyboard is     *)
(* fetched, the latest successful run of its paper is chosen, its plan is  *)
(* fetched, the gap is computed and the final page is to be updated.       *)
(***************************************************************************)
\* largest number of runs recorded for a paper
MaxRuns == 2

\* a run record: plan_found says whether db.get_plan(run.plan_id) finds a plan
RunRecords ==
    [status : {"succeeded", "failed"}, completed_at : {PyNone, "completed"},
     created_at : 1..MaxRuns, plan_found : BOOLEAN]

RunLists == UNION {[1..n -> RunRecords] : n \in 0..MaxRuns}

\* the runs of a list, each with its id (its place in the list)
WithIds(runs) == [k \in 1..Len(runs) |-> [id |-> k] @@ runs[k]]

\* successful_runs = [r for r in runs if r.status == "succeeded" and r.completed_at]
successful_runs(runs) ==
    SelectSeq(runs, LAMBDA r : r.status = "succeeded" /\ r.completed_at # PyNone)

\* successful_runs.sort(key=lambda r: r.created_at, reverse=True); successful_runs[0]
\* (the sort is stable: of equal keys the one first in the list stays first)
latest_run(successful) ==
    successful[CHOOSE k \in 1..Len(successful) :
                  /\ \A j \in 1..Len(successful) :
                        successful[j].created_at <= successful[k].created_at
                  /\ \A j \in 1..(k - 1) :
                        successful[j].created_at < successful[k].created_at]

\* no run chosen yet
NoRun ==
    [id |-> 0, status |-> "", completed_at |-> PyNone, created_at |-> 0, plan_found |-> FALSE]

\* the names the module explain_kid defines
explain_kid == {"_extract_json_from_response", "generate_storyboard"}

InitStory ==
    /\ plan = IdlePlan
    /\ paper = PaperNone
    /\ plan_id = "plan-1"
    /\ factory_out = FactoryIdle
    /\ nb_bytes = NotebookBytesIdle
    /\ vresult = ValidationIdle
    /\ req_out = RequirementsIdle
    /\ req_prev = RequirementsIdle
    /\ nb_out = NotebookIdle
    /\ nb_prev = NotebookIdle
    /\ run = RunIdle
    /\ conc = ConcIdle
    /\ tabular = Idle
    /\ corpus = Idle
    /\ registry = Idle
    /\ relay = Idle
    /\ gateway = Idle
    /\ \E found \in BOOLEAN, runs \in RunLists, gap_rejected \in BOOLEAN :
          story = [started |-> TRUE, storyboard_found |-> found, runs |-> WithIds(runs),
                   gap_rejected |-> gap_rejected, at |-> "get_storyboard",
                   latest_run |-> NoRun, gap_of |-> 0, outcome |-> PyNone,
                   record |-> [run_id |-> 0, storyboard_json |-> "storyboard"],
                   object |-> "storyboard", db_updates |-> 0, storage_writes |-> 0]

StoryUnchanged ==
    UNCHANGED <<plan, paper, plan_id, factory_out, nb_bytes, vresult, req_out, req_prev,
                nb_out, nb_prev, run, conc, tabular, corpus, registry, relay, gateway>>

Raise(code) == [story EXCEPT !.at = "raised", !.outcome = code]

\* storyboard_record = db.get_storyboard(storyboard_id); 404 when there is none
GetStoryboard ==
    /\ story.started
    /\ story.at = "get_storyboard"
    /\ story' = IF ~story.storyboard_found
                THEN Raise("E_STORY_NOT_FOUND")
                ELSE [story EXCEPT !.at = "find_run"]
    /\ StoryUnchanged

\* runs = db.get_runs_by_paper(paper_id) ... latest_run = successful_runs[0]
FindLatestRun ==
    /\ story.started
    /\ story.at = "find_run"
    /\ LET successful == successful_runs(story.runs)
       IN  story' = IF successful = <<>>
                    THEN Raise("E_STORY_NO_RUN")
                    ELSE [story EXCEPT !.at = "get_plan",
                                       !.latest_run = latest_run(successful)]
    /\ StoryUnchanged

\* plan = db.get_plan(latest_run.plan_id); 500 when there is none
GetPlan ==
    /\ story.started
    /\ story.at = "get_plan"
    /\ story' = IF ~story.latest_run.plan_found
                THEN Raise("E_STORY_UPDATE_NOT_POSSIBLE: plan not found")
                ELSE [story EXCEPT !.at = "compute_gap"]
    /\ StoryUnchanged

\* gap_data = await reports.compute_reproduction_gap(run_id=latest_run.id, ...);
\* 400 on ValueError
ComputeGap ==
    /\ story.started
    /\ story.at = "compute_gap"
    /\ story' = IF story.gap_rejected
                THEN Raise("E_STORY_UPDATE_NOT_POSSIBLE: gap rejected")
                ELSE [story EXCEPT !.at = "update_final_page",
                                   !.gap_of = story.latest_run.id]
    /\ StoryUnchanged

\* updated_json = explain_kid.update_final_page_with_scoreboard(...): the
\* module has no such name, the attribute lookup raises and the statements
\* after it (db.update_storyboard, storage.store_text) are not reached
UpdateFinalPage ==
    /\ story.started
    /\ story.at = "update_final_page"
    /\ "update_final_page_with_scoreboard" \notin explain_kid
    /\ story' = Raise("AttributeError")
    /\ StoryUnchanged

NextStory == GetStoryboard \/ FindLatestRun \/ GetPlan \/ ComputeGap \/ UpdateFinalPage

SpecStory == InitStory /\ [][NextStory]_vars

\* the error outcomes of a refresh: storyboard not found, no such run, plan
\* missing, gap computation rejected
RefreshErrors ==
    {"E_STORY_NOT_FOUND", "E_STORY_NO_RUN", "E_STORY_UPDATE_NOT_POSSIBLE: plan not found",
     "E_STORY_UPDATE_NOT_POSSIBLE: gap rejected"}

\* the run used is a succeeded run with a completion time, and no such run
\* of the paper was created later
UsesLatestRun ==
    story.latest_run # NoRun =>
        /\ story.latest_run.status = "succeeded"
        /\ story.latest_run.completed_at # PyNone
        /\ \E k \in 1..Len(story.runs) : story.runs[k] = story.latest_run
        /\ \A k \in 1..Len(story.runs) :
              (story.runs[k].status = "succeeded" /\ story.runs[k].completed_at # PyNone)
                  => story.runs[k].created_at <= story.latest_run.created_at

\* C30: refresh_storyboard_with_results uses the run with the greatest
\* created_at among the succeeded runs with a completion time; a refresh
\* ends either in one of the error outcomes (storyboard not found, no such
\* run, plan missing, gap computation rejected) with no database update and
\* no storage write, or in success with the database record and the storage
\* object holding the same updated storyboard JSON.
C30_RefreshOutcomes ==
    story.started =>
        /\ UsesLatestRun
        /\ story.gap_of # 0 => story.gap_of = story.latest_run.id
        /\ story.outcome \in RefreshErrors =>
               story.db_updates = 0 /\ story.storage_writes = 0
        /\ (story.outcome # PyNone /\ story.outcome \notin RefreshErrors) =>
               /\ story.outcome = "success"
               /\ story.record.run_id = story.latest_run.id
               /\ story.record.storyboard_json = story.object
               /\ story.object # "storyboard"

====
